---- MODULE Spec2Model ----
(***************************************************************************)
(* Model of the factory-management server (src/server.js): the payroll     *)
(* batch POST /employees/salary/calculate over the Employee, Attendance,   *)
(* Advance and Salary collections, and the multi-item sale aggregator      *)
(* POST /sales/add over the Sale collection and the product catalog file.  *)
(*                                                                         *)
(* Every `await` of a handler is one atomic step of the request, so two    *)
(* requests interleave exactly at their await points.  A database call may *)
(* reject; the handler's catch block then answers 500.                     *)
(*                                                                         *)
(* Money computed by the payroll batch is kept as an exact fraction        *)
(* [n, d] (the code uses IEEE doubles and applies no rounding step).       *)
(***************************************************************************)
EXTENDS Integers, Sequences, FiniteSets, TLC

VARIABLES employees, attendance, advances, salaries, included, runs, requests,
          catalog, sales, saleRequest,
          stock, simpleSales, users, session, http, strictQuery, uuids, inflight

payrollVars == <<employees, attendance, advances, salaries, included, runs, requests>>

salesVars == <<catalog, sales, saleRequest>>

\* the stock file, the SimpleSale and User collections, the session of the
\* browser, the last answered request, the query option of the ODM build,
\* the number of identifiers generated so far, and the requests that were
\* received and whose handler has not run yet
webVars == <<stock, simpleSales, users, session, http, strictQuery, uuids, inflight>>

vars == <<payrollVars, salesVars, webVars>>

(***************************************************************************)
(* Bounds and universes.                                                   *)
(***************************************************************************)
\* number of payroll batch requests accepted in one behaviour
MaxRequests == 3

\* request slots: two payroll requests can be in flight at the same time
Runs == {1, 2}

EmployeeIds == {1, 2}

\* (month, year) pairs submitted to the batch in the concurrent specification
Periods == {<<4, 2024>>, <<5, 2024>>}

\* req.session.userId of a session nobody has logged in to
NoUser == 0

\* the test of requireAuth: req.session.userId is set
requireAuth == session.userId # NoUser

(***************************************************************************)
(* Exact fractions.                                                        *)
(***************************************************************************)
Rat(n, d) == [n |-> n, d |-> d]

RatEq(a, b) == a.n * b.d = b.n * a.d

RatAdd(a, b) == Rat(a.n * b.d + b.n * a.d, a.d * b.d)

RatSub(a, b) == Rat(a.n * b.d - b.n * a.d, a.d * b.d)

RatMul(a, b) == Rat(a.n * b.n, a.d * b.d)

\* a / b for b > 0
RatDiv(a, b) == Rat(a.n * b.d, a.d * b.n)

\* Math.max(0, a)
RatMax0(a) == IF a.n >= 0 THEN a ELSE Rat(0, 1)

Max(a, b) == IF a >= b THEN a ELSE b

(***************************************************************************)
(* JavaScript numbers are IEEE 754 doubles: a result is rounded to 53      *)
(* significant bits, to the nearest, ties to even.  A double that is not   *)
(* negative is [i, f]: its integer part and the binary places of its       *)
(* fraction.  The salaries and day counts of the batch are whole numbers   *)
(* far below 2^31.                                                         *)
(***************************************************************************)
RECURSIVE BitLen(_)
BitLen(n) == IF n = 0 THEN 0 ELSE 1 + BitLen(n \div 2)

Pow2(n) ==
    <<1, 2, 4, 8, 16, 32, 64, 128, 256, 512, 1024, 2048, 4096, 8192, 16384, 32768,
      65536, 131072, 262144, 524288, 1048576, 2097152, 4194304, 8388608, 16777216,
      33554432, 67108864, 134217728, 268435456, 536870912, 1073741824>>[n + 1]

\* (r * 2^j) % d, eight binary places at a time
RECURSIVE Remainder(_, _, _)
Remainder(r, d, j) ==
    IF j <= 8 THEN (r * Pow2(j)) % d ELSE (Remainder(r, d, j - 8) * 256) % d

\* the element of a set of one element: Value({F(v) : v \in {e}}) is F(e)
\* with e evaluated once
Value(S) == CHOOSE y \in S : TRUE

\* the number the places a..b of f spell, at most eight of them
PlacesValue(f, a, b) ==
    (IF a <= b THEN f[a] * Pow2(b - a) ELSE 0)
    + (IF a + 1 <= b THEN f[a + 1] * Pow2(b - a - 1) ELSE 0)
    + (IF a + 2 <= b THEN f[a + 2] * Pow2(b - a - 2) ELSE 0)
    + (IF a + 3 <= b THEN f[a + 3] * Pow2(b - a - 3) ELSE 0)
    + (IF a + 4 <= b THEN f[a + 4] * Pow2(b - a - 4) ELSE 0)
    + (IF a + 5 <= b THEN f[a + 5] * Pow2(b - a - 5) ELSE 0)
    + (IF a + 6 <= b THEN f[a + 6] * Pow2(b - a - 6) ELSE 0)
    + (IF a + 7 <= b THEN f[a + 7] ELSE 0)

\* the carries of k * f, eight places at a time: out of the places n.., out
\* of the places (n + 8).., and so on, the last one 0
RECURSIVE Carries(_, _, _)
Carries(f, k, n) ==
    IF n > Len(f) THEN <<0>>
    ELSE Value({<<(k * PlacesValue(f, n, IF n + 7 > Len(f) THEN Len(f) ELSE n + 7)
                   + rest[1])
                  \div Pow2(IF n + 7 > Len(f) THEN Len(f) - n + 1 ELSE 8)>> \o rest :
                  rest \in {Carries(f, k, n + 8)}})

\* the number one unit in the last place above [i, f]
Inc(x) ==
    [i |-> IF \A l \in 1..Len(x.f) : x.f[l] = 1 THEN x.i + 1 ELSE x.i,
     f |-> [j \in 1..Len(x.f) |->
              IF \A l \in (j + 1)..Len(x.f) : x.f[l] = 1 THEN 1 - x.f[j] ELSE x.f[j]]]

PositiveZero == [i |-> 0, f |-> <<>>]

\* the number of binary places of the 53 significant bits of a number with
\* integer part i whose fraction starts with z zeros
Places(i, z) == IF i > 0 THEN 53 - BitLen(i) ELSE 53 + z

\* round to nearest, ties to even, at the place `keep`
Round(x, keep) ==
    LET up == /\ x.f[keep + 1] = 1
              /\ \/ \E j \in (keep + 2)..Len(x.f) : x.f[j] = 1
                 \/ x.f[keep] = 1
    IN  IF keep >= Len(x.f) THEN x
        ELSE IF up THEN Value({Inc(K) : K \in {[i |-> x.i, f |-> SubSeq(x.f, 1, keep)]}})
        ELSE [i |-> x.i, f |-> SubSeq(x.f, 1, keep)]

\* b / d
Divide(b, d) ==
    LET i == b \div d
        r == b % d
        z == CHOOSE n \in 0..31 : r * Pow2(n + 1) >= d /\ \A l \in 0..(n - 1) : r * Pow2(l + 1) < d
        \* N places, one place more, and a sticky place for what follows
        places(N) == [j \in 1..(N + 1) |-> (2 * Remainder(r, d, j - 1)) \div d]
                     \o <<IF Remainder(r, d, N + 1) > 0 THEN 1 ELSE 0>>
    IN  IF r = 0 THEN [i |-> i, f |-> <<>>]
        ELSE Value({Round(x, Len(x.f) - 2) :
                      x \in {[i |-> i, f |-> places(N)] : N \in {Places(i, z)}}})

LeadingZeros(f) ==
    LET ones == {j \in 1..Len(f) : f[j] = 1}
    IN  IF ones = {} THEN Len(f) ELSE (CHOOSE j \in ones : \A l \in ones : j <= l) - 1

\* (k / 2) * x
Multiply(k, x) ==
    LET \* place n lies in the c-th group of eight, which ends at place m
        carry(C, n) ==
            LET c == (n - 1) \div 8 + 1
                m == IF 8 * c > Len(x.f) THEN Len(x.f) ELSE 8 * c
            IN  (k * PlacesValue(x.f, n + 1, m) + C[c + 1]) \div Pow2(m - n)
        product(C) ==
            [i |-> (x.i * k + C[1]) \div 2,
             f |-> <<(x.i * k + C[1]) % 2>>
                   \o [n \in 1..Len(x.f) |-> (k * x.f[n] + carry(C, n)) % 2]]
    IN  Value({Round(y, Places(y.i, LeadingZeros(y.f))) :
                 y \in {product(C) : C \in {Carries(x.f, k, 1)}}})

(***************************************************************************)
(* Calendar: moment(`${year}-${month}-01`).daysInMonth(), startOf('month') *)
(* and endOf('month').  An instant is a sampled point of the time line:    *)
(* (year, month, day, h) with h = 0 the first and h = 1 the last           *)
(* millisecond of the day, numbered so that the order of instants is kept. *)
(***************************************************************************)
isLeapYearEveryFourth(year) == year % 4 = 0

isLeapYear(year) == (year % 4 = 0 /\ year % 100 # 0) \/ year % 400 = 0

\* moment's month index is zero based: February is 1
daysInMonth(year, month) ==
    LET m0 == month - 1
    IN  IF m0 = 1 THEN (IF isLeapYear(year) THEN 29 ELSE 28)
        ELSE 31 - ((m0 % 7) % 2)

Instant(year, month, day, h) == ((year * 12 + (month - 1)) * 31 + (day - 1)) * 2 + h

startOfMonth(year, month) == Instant(year, month, 1, 0)

endOfMonth(year, month) == Instant(year, month, daysInMonth(year, month), 1)

(***************************************************************************)
(* The collections before the first request.  No route of server.js        *)
(* creates Attendance or Advance documents ("Attendance and Advance        *)
(* features removed"), so they are data the batch finds in the database.   *)
(***************************************************************************)
AttendanceRow(e, date, status) == [employeeId |-> e, date |-> date, status |-> status]

\* employee 1, April 2024: 20 present, 4 half-day, 6 absent; rows of another
\* employee and of the neighbouring months around them
FullMonthAttendance ==
    {AttendanceRow(1, Instant(2024, 4, d, 0), "present") : d \in 1..20}
    \cup {AttendanceRow(1, Instant(2024, 4, d, 0), "half-day") : d \in 21..24}
    \cup {AttendanceRow(1, Instant(2024, 4, d, 0), "absent") : d \in 25..30}
    \cup {AttendanceRow(2, Instant(2024, 4, 1, 0), "present"),
          AttendanceRow(2, Instant(2024, 4, 30, 1), "half-day"),
          AttendanceRow(1, Instant(2024, 3, 31, 1), "present"),
          AttendanceRow(1, Instant(2024, 5, 1, 0), "present")}

SparseAttendance ==
    {AttendanceRow(1, Instant(2024, 4, 1, 0), "present"),
     AttendanceRow(1, Instant(2024, 4, 30, 1), "half-day"),
     AttendanceRow(1, Instant(2024, 5, 1, 0), "half-day"),
     AttendanceRow(2, Instant(2024, 4, 2, 0), "absent"),
     AttendanceRow(2, Instant(2024, 5, 31, 0), "present")}

AttendanceTables == {SparseAttendance, FullMonthAttendance}

AdvanceDoc(e, amount, createdAt) ==
    [employeeId |-> e, amount |-> amount, createdAt |-> createdAt, isDeducted |-> FALSE]

AllAdvances ==
    (1 :> AdvanceDoc(1, 2500, Instant(2024, 4, 10, 0)))
    @@ (2 :> AdvanceDoc(1, 500, Instant(2024, 5, 1, 0)))
    @@ (3 :> AdvanceDoc(2, 700, Instant(2024, 4, 30, 1)))
    @@ (4 :> AdvanceDoc(1, 300, Instant(2024, 4, 1, 0)))

\* the Advance collection is one of these sets of documents
AdvanceTables == {{}, {1, 3}, {1, 2, 3, 4}}

EmployeeTables ==
    {(1 :> [isActive |-> TRUE, basicSalary |-> 3000])
        @@ (2 :> [isActive |-> a, basicSalary |-> 3100]) : a \in BOOLEAN}

(***************************************************************************)
(* Request state of POST /employees/salary/calculate: the handler's local  *)
(* variables and the await it is suspended at.                             *)
(***************************************************************************)
IdleRun ==
    [pc |-> "idle", month |-> 0, year |-> 0, employees |-> <<>>, i |-> 0,
     presentDays |-> 0, absentDays |-> 0, halfDays |-> 0, totalWorkingDays |-> 0,
     calculatedSalary |-> Rat(0, 1), advances |-> {}, advanceDeductions |-> 0,
     netSalary |-> Rat(0, 1), calculatedSalaryDouble |-> PositiveZero,
     netSalaryDouble |-> PositiveZero, request |-> 0, response |-> "none", error |-> "none"]

InitPayroll ==
    /\ employees \in EmployeeTables
    /\ attendance \in AttendanceTables
    /\ \E ids \in AdvanceTables : advances = [a \in ids |-> AllAdvances[a]]
    /\ salaries = <<>>
    /\ included = <<>>
    /\ runs = [r \in Runs |-> IdleRun]
    /\ requests = 0

(***************************************************************************)
(* Queries and computations of the batch.                                  *)
(***************************************************************************)
RECURSIVE SortedSeq(_)
SortedSeq(S) ==
    IF S = {} THEN <<>>
    ELSE LET m == CHOOSE x \in S : \A y \in S : x <= y
         IN  <<m>> \o SortedSeq(S \ {m})

\* a query that returns the employees whatever their isActive flag
AllEmployees ==
    LET ids == SortedSeq(DOMAIN employees)
    IN  [k \in 1..Len(ids) |-> [id |-> ids[k], basicSalary |-> employees[ids[k]].basicSalary]]

\* Employee.find({ isActive: true }): the documents as they are at the query
ActiveEmployees ==
    LET ids == SortedSeq({e \in DOMAIN employees : employees[e].isActive})
    IN  [k \in 1..Len(ids) |-> [id |-> ids[k], basicSalary |-> employees[ids[k]].basicSalary]]

existingSalaryAnyPeriod(e, month, year) ==
    \E k \in 1..Len(salaries) : salaries[k].employeeId = e

\* Salary.findOne({ employeeId, month, year }) finds a document
existingSalary(e, month, year) ==
    \E k \in 1..Len(salaries) :
        /\ salaries[k].employeeId = e
        /\ salaries[k].month = month
        /\ salaries[k].year = year

\* Attendance.find({ employeeId, date: { $gte: startDate, $lte: endDate } })
attendanceRecords(e, month, year) ==
    {a \in attendance :
        /\ a.employeeId = e
        /\ a.date >= startOfMonth(year, month)
        /\ a.date <= endOfMonth(year, month)}

presentDaysWithHalfDays(records) == Cardinality({a \in records : a.status # "absent"})

presentDays(records) == Cardinality({a \in records : a.status = "present"})

absentDays(records) == Cardinality({a \in records : a.status = "absent"})

halfDays(records) == Cardinality({a \in records : a.status = "half-day"})

\* (presentDays + (halfDays * 0.5)) * (employee.basicSalary / totalWorkingDays)
calculatedSalary(present, half, basicSalary, totalWorkingDays) ==
    RatMul(RatAdd(Rat(present, 1), RatMul(Rat(half, 1), Rat(1, 2))),
           RatDiv(Rat(basicSalary, 1), Rat(totalWorkingDays, 1)))

\* the same expression as JavaScript evaluates it: presentDays + halfDays *
\* 0.5 is exact (a multiple of one half), the division and the product are
\* each rounded; this is the number the Salary document stores
calculatedSalaryDouble(present, half, basicSalary, totalWorkingDays) ==
    IF 2 * present + half = 0 \/ basicSalary = 0 THEN PositiveZero
    ELSE Value({Multiply(2 * present + half, q) :
                   q \in {Divide(basicSalary, totalWorkingDays)}})

advancesFoundAnyState(e, month, year) ==
    {a \in DOMAIN advances :
        /\ advances[a].employeeId = e
        /\ advances[a].createdAt >= startOfMonth(year, month)
        /\ advances[a].createdAt <= endOfMonth(year, month)}

\* Advance.find({ employeeId, isDeducted: false, createdAt: { $gte, $lte } })
advancesFound(e, month, year) ==
    {a \in DOMAIN advances :
        /\ advances[a].employeeId = e
        /\ advances[a].isDeducted = FALSE
        /\ advances[a].createdAt >= startOfMonth(year, month)
        /\ advances[a].createdAt <= endOfMonth(year, month)}

\* advances.reduce((sum, advance) => sum + advance.amount, 0)
RECURSIVE advanceDeductions(_)
advanceDeductions(ids) ==
    IF ids = {} THEN 0
    ELSE LET a == CHOOSE x \in ids : TRUE
         IN  advances[a].amount + advanceDeductions(ids \ {a})

netSalaryUnclamped(calculated, deductions) == RatSub(calculated, Rat(deductions, 1))

\* Math.max(0, calculatedSalary - advanceDeductions)
netSalary(calculated, deductions) == RatMax0(RatSub(calculated, Rat(deductions, 1)))

\* Math.max(0, calculatedSalary - advanceDeductions) on doubles: the
\* deductions are a whole number, so the difference is exact when it is not
\* negative (it has no more significant bits than calculatedSalary), and a
\* negative difference, rounded or not, gives 0
netSalaryDouble(calculated, deductions) ==
    IF calculated.i >= deductions
    THEN [i |-> calculated.i - deductions, f |-> calculated.f]
    ELSE PositiveZero

DuplicateKeyUnindexed(e, month, year) == FALSE

\* the unique index { employeeId, month, year } rejects the insert (E11000)
DuplicateKey(e, month, year) ==
    \E k \in 1..Len(salaries) :
        /\ salaries[k].employeeId = e
        /\ salaries[k].month = month
        /\ salaries[k].year = year

(***************************************************************************)
(* Control flow of the handler.                                            *)
(***************************************************************************)
\* the response is sent and the request is over
Respond(run, response, error) ==
    [IdleRun EXCEPT !.response = response, !.error = error]

\* next iteration of `for (const employee of employees)`, or the redirect
Continue(run) ==
    IF run.i + 1 > Len(run.employees)
    THEN Respond(run, "redirect", "none")
    ELSE [IdleRun EXCEPT !.pc = "findOne", !.month = run.month, !.year = run.year,
                         !.employees = run.employees, !.i = run.i + 1,
                         !.request = run.request]

employee(run) == run.employees[run.i]

\* the request arrives and Employee.find resolves
Calculate(r, month, year) ==
    /\ requireAuth
    /\ runs[r].pc = "idle"
    /\ requests < MaxRequests
    /\ requests' = requests + 1
    /\ runs' = [runs EXCEPT ![r] =
                  Continue([IdleRun EXCEPT !.month = month, !.year = year,
                                           !.employees = ActiveEmployees,
                                           !.request = requests + 1])]
    /\ UNCHANGED <<employees, attendance, advances, salaries, included>>
    /\ UNCHANGED <<salesVars, webVars>>

\* await Salary.findOne(...); if (existingSalary) continue;
FindOne(r) ==
    LET run == runs[r] IN
    /\ run.pc = "findOne"
    /\ runs' = [runs EXCEPT ![r] =
                  IF existingSalary(employee(run).id, run.month, run.year)
                  THEN Continue(run)
                  ELSE [run EXCEPT !.pc = "attendance"]]
    /\ UNCHANGED <<employees, attendance, advances, salaries, included, requests>>
    /\ UNCHANGED <<salesVars, webVars>>

\* await Attendance.find(...), the three counts, the day count and the salary
AttendanceFind(r) ==
    LET run == runs[r]
        records == attendanceRecords(employee(run).id, run.month, run.year)
        days == daysInMonth(run.year, run.month)
    IN
    /\ run.pc = "attendance"
    /\ runs' = [runs EXCEPT ![r] =
                  [run EXCEPT !.pc = "advances",
                              !.presentDays = presentDays(records),
                              !.absentDays = absentDays(records),
                              !.halfDays = halfDays(records),
                              !.totalWorkingDays = days,
                              !.calculatedSalary =
                                  calculatedSalary(presentDays(records), halfDays(records),
                                                   employee(run).basicSalary, days),
                              !.calculatedSalaryDouble =
                                  calculatedSalaryDouble(presentDays(records),
                                                         halfDays(records),
                                                         employee(run).basicSalary, days)]]
    /\ UNCHANGED <<employees, attendance, advances, salaries, included, requests>>
    /\ UNCHANGED <<salesVars, webVars>>

\* await Advance.find(...), the deductions and the net salary
AdvanceFind(r) ==
    LET run == runs[r]
        found == advancesFound(employee(run).id, run.month, run.year)
    IN
    /\ run.pc = "advances"
    /\ runs' = [runs EXCEPT ![r] =
                  [run EXCEPT !.pc = "save",
                              !.advances = found,
                              !.advanceDeductions = advanceDeductions(found),
                              !.netSalary = netSalary(run.calculatedSalary,
                                                      advanceDeductions(found)),
                              !.netSalaryDouble =
                                  netSalaryDouble(run.calculatedSalaryDouble,
                                                  advanceDeductions(found))]]
    /\ UNCHANGED <<employees, attendance, advances, salaries, included, requests>>
    /\ UNCHANGED <<salesVars, webVars>>

\* the document built by new Salary({...}); status takes the schema default
SalaryDoc(run) ==
    [employeeId |-> employee(run).id, month |-> run.month, year |-> run.year,
     basicSalary |-> employee(run).basicSalary,
     presentDays |-> run.presentDays, absentDays |-> run.absentDays,
     halfDays |-> run.halfDays, totalWorkingDays |-> run.totalWorkingDays,
     calculatedSalary |-> run.calculatedSalary,
     advanceDeductions |-> run.advanceDeductions,
     netSalary |-> run.netSalary,
     calculatedSalaryDouble |-> run.calculatedSalaryDouble,
     netSalaryDouble |-> run.netSalaryDouble, status |-> "pending"]

SalarySaveErrorSwallowed(r) ==
    LET run == runs[r] IN
    /\ run.pc = "save"
    /\ IF DuplicateKey(employee(run).id, run.month, run.year)
       THEN UNCHANGED <<salaries, included>>
       ELSE /\ salaries' = Append(salaries, SalaryDoc(run))
            /\ included' = Append(included, [advances |-> run.advances,
                                             request |-> run.request])
    /\ runs' = [runs EXCEPT ![r] = [run EXCEPT !.pc = "updateMany"]]
    /\ UNCHANGED <<employees, attendance, advances, requests>>
    /\ UNCHANGED <<salesVars, webVars>>

\* await salary.save(): the insert, or the unique index's rejection, which
\* the catch block answers with 500
SalarySave(r) ==
    LET run == runs[r] IN
    /\ run.pc = "save"
    /\ IF DuplicateKey(employee(run).id, run.month, run.year)
       THEN /\ runs' = [runs EXCEPT ![r] = Respond(run, "500", "E11000")]
            /\ UNCHANGED <<salaries, included>>
       ELSE /\ salaries' = Append(salaries, SalaryDoc(run))
            /\ included' = Append(included, [advances |-> run.advances,
                                             request |-> run.request])
            /\ runs' = [runs EXCEPT ![r] = [run EXCEPT !.pc = "updateMany"]]
    /\ UNCHANGED <<employees, attendance, advances, requests>>
    /\ UNCHANGED <<salesVars, webVars>>

\* await Advance.updateMany({ _id: { $in: ids } }, { isDeducted: true, ... })
AdvanceUpdateMany(r) ==
    LET run == runs[r] IN
    /\ run.pc = "updateMany"
    /\ advances' = [a \in DOMAIN advances |->
                      IF a \in run.advances
                      THEN [advances[a] EXCEPT !.isDeducted = TRUE]
                      ELSE advances[a]]
    /\ runs' = [runs EXCEPT ![r] = Continue(run)]
    /\ UNCHANGED <<employees, attendance, salaries, included, requests>>
    /\ UNCHANGED <<salesVars, webVars>>

\* new Advance({ employeeId, amount }).save(): no route of the server creates
\* an Advance; the document arrives in the collection with the defaults of
\* the schema, isDeducted false and createdAt the instant of the insert
AdvanceInsert(a, e, amount, createdAt) ==
    /\ a \notin DOMAIN advances
    /\ advances' = advances @@ (a :> AdvanceDoc(e, amount, createdAt))
    /\ UNCHANGED <<employees, attendance, salaries, included, runs, requests>>
    /\ UNCHANGED <<salesVars, webVars>>

\* a catch inside the loop: 500 is noted and the next employee is taken
DbErrorInsideLoop(r) ==
    LET run == runs[r] IN
    /\ run.pc \in {"findOne", "attendance", "advances", "save", "updateMany"}
    /\ runs' = [runs EXCEPT ![r] = [Continue(run) EXCEPT !.response = "500",
                                                         !.error = "db"]]
    /\ UNCHANGED <<employees, attendance, advances, salaries, included, requests>>
    /\ UNCHANGED <<salesVars, webVars>>

\* the awaited database call rejects: catch (error) { res.status(500)... }
DbError(r) ==
    LET run == runs[r] IN
    /\ run.pc \in {"findOne", "attendance", "advances", "save", "updateMany"}
    /\ runs' = [runs EXCEPT ![r] = Respond(run, "500", "db")]
    /\ UNCHANGED <<employees, attendance, advances, salaries, included, requests>>
    /\ UNCHANGED <<salesVars, webVars>>

(***************************************************************************)
(* POST /sales/add.  A value of the request body is undefined or a string  *)
(* (a sequence of characters), as a form sends it.  The strings hold       *)
(* digits, a sign, blanks and letters, no decimal point, so parseFloat     *)
(* yields whole numbers.  customerPhone, customerAddress, date and notes   *)
(* are stored as sent and are left out.                                    *)
(***************************************************************************)
Undefined == [t |-> "undefined"]

Str(s) == [t |-> "string", s |-> s]

NaN == [nan |-> TRUE, v |-> 0]

Number(v) == [nan |-> FALSE, v |-> v]

\* p.field of a request object
Get(p, field) == IF field \in DOMAIN p THEN p[field] ELSE Undefined

\* JavaScript truthiness of a body value
Truthy(x) == x.t = "string" /\ x.s # <<>>

\* a || b
Or(a, b) == IF Truthy(a) THEN a ELSE b

DigitValue ==
    ("0" :> 0) @@ ("1" :> 1) @@ ("2" :> 2) @@ ("3" :> 3) @@ ("4" :> 4)
    @@ ("5" :> 5) @@ ("6" :> 6) @@ ("7" :> 7) @@ ("8" :> 8) @@ ("9" :> 9)

RECURSIVE SkipBlanks(_)
SkipBlanks(s) == IF s # <<>> /\ Head(s) = " " THEN SkipBlanks(Tail(s)) ELSE s

\* the value of the longest prefix of digits, and whether there is one
RECURSIVE ReadDigits(_, _, _)
ReadDigits(s, acc, any) ==
    IF s # <<>> /\ Head(s) \in DOMAIN DigitValue
    THEN ReadDigits(Tail(s), acc * 10 + DigitValue[Head(s)], TRUE)
    ELSE IF any THEN Number(acc) ELSE NaN

\* parseFloat(x): leading blanks, an optional sign, digits; the rest is ignored
parseFloat(x) ==
    IF x.t # "string" THEN NaN
    ELSE LET s == SkipBlanks(x.s)
         IN  IF s # <<>> /\ Head(s) = "-"
             THEN LET m == ReadDigits(Tail(s), 0, FALSE)
                  IN  IF m.nan THEN NaN ELSE Number(0 - m.v)
             ELSE IF s # <<>> /\ Head(s) = "+"
             THEN ReadDigits(Tail(s), 0, FALSE)
             ELSE ReadDigits(s, 0, FALSE)

\* parseFloat(p.field || p["field"] || 0)
parseFloatOrZero(p, field) ==
    LET x == Or(Get(p, field), Get(p, field))
    IN  IF Truthy(x) THEN parseFloat(x) ELSE Number(0)

\* !n for a number
Falsy(n) == n.nan \/ n.v = 0

\* parseFloat(x) || 0
NumberOrZero(x) == IF Falsy(parseFloat(x)) THEN 0 ELSE parseFloat(x).v

\* if (!productIdVal || !quantityVal || !priceVal) continue;
Dropped(p) ==
    \/ ~Truthy(Or(Get(p, "productId"), Get(p, "productId")))
    \/ Falsy(parseFloatOrZero(p, "quantity"))
    \/ Falsy(parseFloatOrZero(p, "price"))

\* productCatalog.find(pc => pc.id === productIdVal)
CatalogMatch(productCatalog, productId) ==
    {k \in 1..Len(productCatalog) :
        /\ productCatalog[k].id = productId
        /\ \A j \in 1..(k - 1) : productCatalog[j].id # productId}

\* match ? match.name : (p.productName || p["productName"] || 'Product')
productName(productCatalog, p) ==
    LET match == CatalogMatch(productCatalog, Get(p, "productId").s)
    IN  IF match # {} THEN productCatalog[CHOOSE k \in match : TRUE].name
        ELSE IF Truthy(Or(Get(p, "productName"), Get(p, "productName")))
        THEN Get(p, "productName").s
        ELSE <<"P", "r", "o", "d", "u", "c", "t">>

lineTotalFromClient(p) ==
    IF Truthy(Get(p, "totalAmount"))
    THEN parseFloat(Get(p, "totalAmount")).v
    ELSE parseFloatOrZero(p, "quantity").v * parseFloatOrZero(p, "price").v

\* const totalAmount = quantityVal * priceVal
lineTotal(p) == parseFloatOrZero(p, "quantity").v * parseFloatOrZero(p, "price").v

\* the object pushed onto items for a kept entry
SaleItem(productCatalog, p) ==
    [productId |-> Get(p, "productId").s,
     productName |-> productName(productCatalog, p),
     quantity |-> parseFloatOrZero(p, "quantity").v,
     price |-> parseFloatOrZero(p, "price").v,
     totalAmount |-> lineTotal(p)]

RECURSIVE saleItemsBreak(_, _)
saleItemsBreak(productCatalog, normalized) ==
    IF normalized = <<>> THEN <<>>
    ELSE IF Dropped(Head(normalized)) THEN <<>>
    ELSE <<SaleItem(productCatalog, Head(normalized))>>
         \o saleItemsBreak(productCatalog, Tail(normalized))

\* the loop over normalized: the kept entries, in input order
RECURSIVE saleItems(_, _)
saleItems(productCatalog, normalized) ==
    IF normalized = <<>> THEN <<>>
    ELSE IF Dropped(Head(normalized))
    THEN saleItems(productCatalog, Tail(normalized))
    ELSE <<SaleItem(productCatalog, Head(normalized))>>
         \o saleItems(productCatalog, Tail(normalized))

\* subtotal += totalAmount over the kept entries
RECURSIVE subtotalOf(_)
subtotalOf(items) ==
    IF items = <<>> THEN 0 ELSE Head(items).totalAmount + subtotalOf(Tail(items))

saleTotalTaxSubtracted(subtotal, disc, tx) == Max(0, subtotal - disc - tx)

\* Math.max(0, subtotal - disc + tx)
saleTotal(subtotal, disc, tx) == Max(0, subtotal - disc + tx)

\* new Sale({...}) as built by the handler
SaleDoc(productCatalog, body) ==
    LET products == Get(body, "products")
        normalized == IF "products" \in DOMAIN body THEN products ELSE <<>>
        items == saleItems(productCatalog, normalized)
        subtotal == subtotalOf(items)
        disc == NumberOrZero(Get(body, "discount"))
        tx == NumberOrZero(Get(body, "tax"))
    IN  [customerName |-> Get(body, "customerName"),
         items |-> items,
         subtotal |-> subtotal,
         discount |-> disc,
         tax |-> tx,
         totalAmount |-> saleTotal(subtotal, disc, tx),
         paymentMethod |-> Or(Get(body, "paymentMethod"), Str(<<"c", "a", "s", "h">>))]

PaymentMethods ==
    {<<"c", "a", "s", "h">>, <<"c", "a", "r", "d">>, <<"u", "p", "i">>,
     <<"c", "h", "e", "q", "u", "e">>}

\* the validators of saleItemSchema (whole-number quantities: min 0.001 is >= 1)
ItemValid(item) ==
    /\ item.productId # <<>>
    /\ item.productName # <<>>
    /\ item.quantity >= 1
    /\ item.price >= 0
    /\ item.totalAmount >= 0

\* a validator that rejects a sale without items, which saleSchema has not
SaleValidItemsRequired(doc) ==
    /\ Truthy(doc.customerName)
    /\ doc.items # <<>>
    /\ \A k \in 1..Len(doc.items) : ItemValid(doc.items[k])
    /\ doc.subtotal >= 0
    /\ doc.discount >= 0
    /\ doc.tax >= 0
    /\ doc.totalAmount >= 0
    /\ doc.paymentMethod.s \in PaymentMethods

\* the validators of saleSchema run by sale.save()
SaleValid(doc) ==
    /\ Truthy(doc.customerName)
    /\ \A k \in 1..Len(doc.items) : ItemValid(doc.items[k])
    /\ doc.subtotal >= 0
    /\ doc.discount >= 0
    /\ doc.tax >= 0
    /\ doc.totalAmount >= 0
    /\ doc.paymentMethod.s \in PaymentMethods

\* readData(filePath): the parsed file, or [] when reading or parsing fails
readData(file, ok) == IF ok THEN file ELSE <<>>

\* data/products.json as initializeDataFile writes it (ids shortened)
ProductsFile ==
    <<[id |-> <<"p", "1">>, name |-> <<"K", "e", "s", "a", "r">>, price |-> Number(200)],
      [id |-> <<"p", "2">>, name |-> <<"C", "h", "o", "c", "o">>, price |-> Number(250)],
      [id |-> <<"p", "3">>, name |-> <<"P", "l", "a", "i", "n">>, price |-> Number(180)]>>

\* entries of the products field of a request
KesarItem ==
    [productId |-> Str(<<"p", "1">>), quantity |-> Str(<<"2">>),
     price |-> Str(<<"2", "0", "0">>)]

ChocoItem ==
    [productId |-> Str(<<"p", "2">>), productName |-> Str(<<"X">>),
     quantity |-> Str(<<"1">>), price |-> Str(<<"2", "5", "0">>),
     totalAmount |-> Str(<<"9">>)]

NoQuantityItem == [productId |-> Str(<<"p", "1">>), price |-> Str(<<"2", "0", "0">>)]

LetterPriceItem ==
    [productId |-> Str(<<"p", "9">>), quantity |-> Str(<<"3">>),
     price |-> Str(<<"a", "b", "c">>)]

ZeroQuantityItem ==
    [productId |-> Str(<<"p", "2">>), quantity |-> Str(<<"0">>), price |-> Str(<<"5">>)]

EmptyIdItem ==
    [productId |-> Str(<<>>), quantity |-> Str(<<"1">>), price |-> Str(<<"5">>)]

NegativeItem ==
    [productId |-> Str(<<"p", "9">>), quantity |-> Str(<<"-", "1">>),
     price |-> Str(<<"5">>)]

LooseItem ==
    [productId |-> Str(<<"p", "9">>), quantity |-> Str(<<" ", "3", "x">>),
     price |-> Str(<<"+", "5">>), totalAmount |-> Str(<<"1">>)]

RawItems ==
    {KesarItem, ChocoItem, NoQuantityItem, LetterPriceItem, ZeroQuantityItem,
     NegativeItem, LooseItem}

\* longest products list of a request
MaxItems == 2

\* number of POST /sales/add requests in one behaviour
MaxSaleRequests == 1

ItemLists == UNION {[1..n -> RawItems] : n \in 0..MaxItems}

Customer == Str(<<"A">>)

\* requests that vary the items, the amounts, and the other fields
Bodies ==
    {[customerName |-> Customer, products |-> items] : items \in ItemLists}
    \cup {[customerName |-> Customer]}
    \cup {[customerName |-> Customer, products |-> items, discount |-> d, tax |-> x] :
            items \in {<<>>, <<KesarItem, ChocoItem>>, <<EmptyIdItem, KesarItem>>},
            d \in {Undefined, Str(<<"5", "0">>), Str(<<"a", "b", "c">>),
                   Str(<<"9", "0", "0">>), Str(<<"-", "5">>)},
            x \in {Undefined, Str(<<"1", "0">>)}}
    \cup {[customerName |-> name, products |-> <<KesarItem>>, paymentMethod |-> m] :
            name \in {Customer, Undefined},
            m \in {Undefined, Str(<<"u", "p", "i">>), Str(<<"b", "a", "d">>)}}

\* the last POST /sales/add request, the user of its session, its answer,
\* and how many there were
NoSaleRequest ==
    [n |-> 0, body |-> << >>, userId |-> NoUser, response |-> "none", error |-> "none"]

Answer(body, response, error) ==
    [n |-> saleRequest.n + 1, body |-> body, userId |-> session.userId,
     response |-> response, error |-> error]

\* POST /sales/add: the document is built, validated and inserted by
\* sale.save(); a validation or database error is answered with 500
SalesAdd(body) ==
    /\ requireAuth
    /\ saleRequest.n < MaxSaleRequests
    /\ \E ok \in BOOLEAN :
         LET productCatalog == readData(catalog, ok)
             doc == SaleDoc(productCatalog, body)
         IN
         \/ /\ SaleValid(doc)
            /\ sales' = Append(sales, doc)
            /\ saleRequest' = Answer(body, "redirect", "none")
         \/ /\ ~SaleValid(doc)
            /\ sales' = sales
            /\ saleRequest' = Answer(body, "500", "validation")
         \/ /\ sales' = sales
            /\ saleRequest' = Answer(body, "500", "db")
    /\ UNCHANGED catalog
    /\ UNCHANGED <<payrollVars, webVars>>

(***************************************************************************)
(* The other routes.  A handler without await runs to its answer in one    *)
(* step.  The files hold sequences of entries; of an entry the id, the     *)
(* name and the number are kept (unit, description and the time stamps are *)
(* stored as sent and are left out).  A name that was not sent, or sent    *)
(* empty, is the empty string.                                             *)
(***************************************************************************)
\* identifiers uuidv4() generates in one behaviour
MaxUuids == 1

Digits == <<"1", "2", "3", "4", "5", "6", "7", "8", "9">>

\* uuidv4(): the n-th identifier generated
uuidv4(n) == <<"u", Digits[n]>>

\* the _id of the n-th document of a collection; its first eight
\* characters are the creation time
ObjectId(collection, n) ==
    <<"6", "5", "a", "0", "0", "0", "0", "0", collection, Digits[n]>>

\* the string a body field leaves in the JSON file
FileString(v) == IF v.t = "string" THEN v.s ELSE <<>>

\* the last answered request: the route, its :id, the status, the redirect
\* target, the operations that failed while it ran, and what was rendered;
\* seq alternates so that two equal answers in a row are two steps
NoBody == [kind |-> "none"]

NoHttp ==
    [seq |-> 0, route |-> "none", id |-> <<>>, status |-> "none",
     location |-> "none", failed |-> {}, body |-> NoBody]

Reply(route, id, status, location, failed, body) ==
    [seq |-> 1 - http.seq, route |-> route, id |-> id, status |-> status,
     location |-> location, failed |-> failed, body |-> body]

\* the operations that failed, of those a synchronous handler makes
\* (writeData: fs.writeFileSync truncates the file when it opens it, so a
\* write that fails leaves the file as it was, when the open fails, or cut
\* short, when a later write fails; a file cut short cannot be parsed and
\* reads as the empty list)
Failed(readOk, writeOk) ==
    (IF readOk THEN {} ELSE {"read"}) \cup (IF writeOk THEN {} ELSE {"write"})

\* file.findIndex(e => e.id === id), as the set of that index
findIndex(file, id) ==
    {k \in 1..Len(file) :
        /\ file[k].id = id
        /\ \A j \in 1..(k - 1) : file[j].id # id}

\* file.filter(e => e.id !== id)
RECURSIVE filterOut(_, _)
filterOut(file, id) ==
    IF file = <<>> THEN <<>>
    ELSE IF Head(file).id = id THEN filterOut(Tail(file), id)
    ELSE <<Head(file)>> \o filterOut(Tail(file), id)

\* POST /products/add
ProductsAdd(body) ==
    /\ requireAuth
    /\ uuids < MaxUuids
    /\ uuids' = uuids + 1
    /\ \E readOk \in BOOLEAN, writeOk \in BOOLEAN :
         LET product == [id |-> uuidv4(uuids + 1),
                         name |-> FileString(Get(body, "name")),
                         price |-> parseFloat(Get(body, "price"))]
             products == Append(readData(catalog, readOk), product)
         IN  IF writeOk
             THEN /\ catalog' = products
                  /\ http' = Reply("POST /products/add", <<>>, "302", "/products",
                                   Failed(readOk, TRUE), NoBody)
             ELSE /\ catalog' \in {catalog, <<>>}
                  /\ http' = Reply("POST /products/add", <<>>, "500", "none",
                                   Failed(readOk, FALSE), NoBody)
    /\ UNCHANGED <<sales, saleRequest, stock, simpleSales, users, session, strictQuery, inflight>>
    /\ UNCHANGED payrollVars

\* GET /products/edit/:id
ProductsEditPage(id) ==
    /\ requireAuth
    /\ \E readOk \in BOOLEAN :
         LET products == readData(catalog, readOk)
             found == findIndex(products, id)
         IN  http' = IF found = {}
                     THEN Reply("GET /products/edit/:id", id, "404", "none",
                                Failed(readOk, TRUE), NoBody)
                     ELSE Reply("GET /products/edit/:id", id, "200", "none",
                                Failed(readOk, TRUE),
                                [kind |-> "products/edit",
                                 product |-> products[CHOOSE k \in found : TRUE]])
    /\ UNCHANGED <<stock, simpleSales, users, session, strictQuery, uuids, inflight>>
    /\ UNCHANGED <<payrollVars, salesVars>>

\* POST /products/edit/:id
ProductsEdit(id, body) ==
    /\ requireAuth
    /\ \E readOk \in BOOLEAN, writeOk \in BOOLEAN :
         LET products == readData(catalog, readOk)
             productIndex == findIndex(products, id)
             edited == [products EXCEPT ![CHOOSE k \in productIndex : TRUE] =
                          [@ EXCEPT !.name = FileString(Get(body, "name")),
                                    !.price = parseFloat(Get(body, "price"))]]
         IN  IF productIndex = {}
             THEN /\ catalog' = catalog
                  /\ http' = Reply("POST /products/edit/:id", id, "404", "none",
                                   Failed(readOk, TRUE), NoBody)
             ELSE IF writeOk
             THEN /\ catalog' = edited
                  /\ http' = Reply("POST /products/edit/:id", id, "302", "/products",
                                   Failed(readOk, TRUE), NoBody)
             ELSE /\ catalog' \in {catalog, <<>>}
                  /\ http' = Reply("POST /products/edit/:id", id, "500", "none",
                                   Failed(readOk, FALSE), NoBody)
    /\ UNCHANGED <<sales, saleRequest, stock, simpleSales, users, session, strictQuery, uuids, inflight>>
    /\ UNCHANGED payrollVars

\* POST /products/delete/:id
ProductsDelete(id) ==
    /\ requireAuth
    /\ \E readOk \in BOOLEAN, writeOk \in BOOLEAN :
         LET filteredProducts == filterOut(readData(catalog, readOk), id)
         IN  IF writeOk
             THEN /\ catalog' = filteredProducts
                  /\ http' = Reply("POST /products/delete/:id", id, "302", "/products",
                                   Failed(readOk, TRUE), NoBody)
             ELSE /\ catalog' \in {catalog, <<>>}
                  /\ http' = Reply("POST /products/delete/:id", id, "500", "none",
                                   Failed(readOk, FALSE), NoBody)
    /\ UNCHANGED <<sales, saleRequest, stock, simpleSales, users, session, strictQuery, uuids, inflight>>
    /\ UNCHANGED payrollVars

\* the handler of POST /stock/add: readFileSync and writeFileSync block, so
\* the handler runs from its read to its answer in one turn of the event loop
StockAddHandler(body) ==
    /\ requireAuth
    /\ uuids' = uuids + 1
    /\ \E readOk \in BOOLEAN, writeOk \in BOOLEAN :
         LET stockItem == [id |-> uuidv4(uuids + 1),
                           name |-> FileString(Get(body, "name")),
                           quantity |-> parseFloat(Get(body, "quantity"))]
             added == Append(readData(stock, readOk), stockItem)
         IN  IF writeOk
             THEN /\ stock' = added
                  /\ http' = Reply("POST /stock/add", <<>>, "302", "/stock",
                                   Failed(readOk, TRUE), NoBody)
             ELSE /\ stock' \in {stock, <<>>}
                  /\ http' = Reply("POST /stock/add", <<>>, "500", "none",
                                   Failed(readOk, FALSE), NoBody)
    /\ UNCHANGED <<simpleSales, users, session, strictQuery>>
    /\ UNCHANGED <<payrollVars, salesVars>>

\* POST /stock/add, handled as soon as it is received
StockAdd(body) ==
    /\ uuids < MaxUuids
    /\ StockAddHandler(body)
    /\ UNCHANGED inflight

\* GET /stock/edit/:id
StockEditPage(id) ==
    /\ requireAuth
    /\ \E readOk \in BOOLEAN :
         LET read == readData(stock, readOk)
             found == findIndex(read, id)
         IN  http' = IF found = {}
                     THEN Reply("GET /stock/edit/:id", id, "404", "none",
                                Failed(readOk, TRUE), NoBody)
                     ELSE Reply("GET /stock/edit/:id", id, "200", "none",
                                Failed(readOk, TRUE),
                                [kind |-> "stock/edit",
                                 stockItem |-> read[CHOOSE k \in found : TRUE]])
    /\ UNCHANGED <<stock, simpleSales, users, session, strictQuery, uuids, inflight>>
    /\ UNCHANGED <<payrollVars, salesVars>>

\* the handler of POST /stock/edit/:id, one turn of the event loop as well
StockEditHandler(id, body) ==
    /\ requireAuth
    /\ \E readOk \in BOOLEAN, writeOk \in BOOLEAN :
         LET read == readData(stock, readOk)
             stockIndex == findIndex(read, id)
             edited == [read EXCEPT ![CHOOSE k \in stockIndex : TRUE] =
                          [@ EXCEPT !.name = FileString(Get(body, "name")),
                                    !.quantity = parseFloat(Get(body, "quantity"))]]
         IN  IF stockIndex = {}
             THEN /\ stock' = stock
                  /\ http' = Reply("POST /stock/edit/:id", id, "404", "none",
                                   Failed(readOk, TRUE), NoBody)
             ELSE IF writeOk
             THEN /\ stock' = edited
                  /\ http' = Reply("POST /stock/edit/:id", id, "302", "/stock",
                                   Failed(readOk, TRUE), NoBody)
             ELSE /\ stock' \in {stock, <<>>}
                  /\ http' = Reply("POST /stock/edit/:id", id, "500", "none",
                                   Failed(readOk, FALSE), NoBody)
    /\ UNCHANGED <<simpleSales, users, session, strictQuery, uuids>>
    /\ UNCHANGED <<payrollVars, salesVars>>

\* POST /stock/edit/:id, handled as soon as it is received
StockEdit(id, body) == StockEditHandler(id, body) /\ UNCHANGED inflight

\* POST /stock/delete/:id
StockDelete(id) ==
    /\ requireAuth
    /\ \E readOk \in BOOLEAN, writeOk \in BOOLEAN :
         LET filteredStock == filterOut(readData(stock, readOk), id)
         IN  IF writeOk
             THEN /\ stock' = filteredStock
                  /\ http' = Reply("POST /stock/delete/:id", id, "302", "/stock",
                                   Failed(readOk, TRUE), NoBody)
             ELSE /\ stock' \in {stock, <<>>}
                  /\ http' = Reply("POST /stock/delete/:id", id, "500", "none",
                                   Failed(readOk, FALSE), NoBody)
    /\ UNCHANGED <<simpleSales, users, session, strictQuery, uuids, inflight>>
    /\ UNCHANGED <<payrollVars, salesVars>>

\* data/stock.json as initializeDataFile writes it (ids shortened)
StockFile ==
    <<[id |-> <<"s", "1">>, name |-> <<"S", "u", "g", "a", "r">>, quantity |-> Number(100)],
      [id |-> <<"s", "2">>, name |-> <<"M", "i", "l", "k">>, quantity |-> Number(50)]>>

(***************************************************************************)
(* Requests in flight together.  A request is received (the connection is  *)
(* accepted, the body parsed and the session loaded from the store, all    *)
(* asynchronously) and later its handler runs; the handlers of the stock   *)
(* routes make no asynchronous call, so a handler that has started ends    *)
(* before any other handler starts.                                        *)
(***************************************************************************)
Slots == {1, 2}

NoRequest ==
    [state |-> "none", route |-> "none", id |-> <<>>, body |-> NoBody,
     status |-> "none", failed |-> {}, waiting |-> {}, after |-> {}]

\* a request arrives and waits for its handler
Receive(r, request) ==
    /\ inflight[r].state = "none"
    /\ inflight' = [inflight EXCEPT ![r] =
                      [NoRequest EXCEPT !.state = "received", !.route = request.route,
                                        !.id = request.id, !.body = request.body]]
    /\ UNCHANGED <<stock, simpleSales, users, session, http, strictQuery, uuids>>
    /\ UNCHANGED <<payrollVars, salesVars>>

\* a handler that takes the stock file as it was when the server started
HandleStaleRead(r) ==
    LET request == inflight[r]
        stockItem == [id |-> uuidv4(uuids + 1),
                      name |-> FileString(Get(request.body, "name")),
                      quantity |-> parseFloat(Get(request.body, "quantity"))]
    IN
    /\ request.state = "received"
    /\ request.route = "POST /stock/add"
    /\ uuids' = uuids + 1
    /\ stock' = Append(StockFile, stockItem)
    /\ http' = Reply("POST /stock/add", <<>>, "302", "/stock", {}, NoBody)
    /\ inflight' = [inflight EXCEPT ![r] =
                      [@ EXCEPT !.state = "answered", !.status = "302",
                                !.waiting = {q \in Slots : inflight[q].state = "received"} \ {r},
                                !.after = {q \in Slots : inflight[q].state = "answered"}]]
    /\ UNCHANGED <<simpleSales, users, session, strictQuery>>
    /\ UNCHANGED <<payrollVars, salesVars>>

\* the handler of a received request runs; the answer is kept with the
\* request, together with the requests that were waiting and the requests
\* that had been answered when it ran
Handle(r) ==
    LET request == inflight[r] IN
    /\ request.state = "received"
    /\ \/ /\ request.route = "POST /stock/add"
          /\ StockAddHandler(request.body)
       \/ /\ request.route = "POST /stock/edit/:id"
          /\ StockEditHandler(request.id, request.body)
    /\ inflight' = [inflight EXCEPT ![r] =
                      [@ EXCEPT !.state = "answered", !.status = http'.status,
                                !.failed = http'.failed,
                                !.waiting = {q \in Slots : inflight[q].state = "received"} \ {r},
                                !.after = {q \in Slots : inflight[q].state = "answered"}]]

\* the _id of the n-th Sale and SimpleSale document
SaleId(n) == ObjectId("a", n)

SimpleSaleId(n) == ObjectId("b", n)

\* a string the ODM can cast to an ObjectId
IsObjectId(id) == Len(id) = Len(SaleId(1))

\* SimpleSale.findOne({ _id, userId }): the positions of the matches
SimpleSaleFindOne(id, userId) ==
    {n \in 1..Len(simpleSales) :
        simpleSales[n].id = id /\ simpleSales[n].userId = userId}

\* Sale.findOne({ _id, userId }): saleSchema has no userId path, so a stored
\* Sale has no userId.  With strictQuery the ODM removes the userId
\* condition from the filter; without it the condition is sent to the
\* database and matches no document, userId being set
SaleFindOne(id, userId) ==
    {n \in 1..Len(sales) : SaleId(n) = id /\ strictQuery}

\* value.toFixed(2) of a whole number: the whole part and the two decimals
toFixed2(value) == <<value, 0>>

\* `invoice-${code}.pdf` with code = _id.toString().substring(0,8)
invoiceFilename(id) ==
    <<"i", "n", "v", "o", "i", "c", "e", "-">> \o SubSeq(id, 1, 8)
    \o <<".", "p", "d", "f">>

\* a row that takes the name from the products file instead of the sale
invoiceRowFromCatalog(item) ==
    LET match == CatalogMatch(catalog, item.productId)
    IN  [name |-> IF match # {} THEN catalog[CHOOSE k \in match : TRUE].name
                  ELSE item.productName,
         qty |-> item.quantity,
         price |-> toFixed2(item.price),
         lineTotal |-> toFixed2(item.totalAmount)]

\* one row of the items table (the stored numbers are finite)
invoiceRow(item) ==
    [name |-> IF item.productName # <<>> THEN item.productName
              ELSE <<"P", "r", "o", "d", "u", "c", "t">>,
     qty |-> item.quantity,
     price |-> toFixed2(item.price),
     lineTotal |-> toFixed2(item.totalAmount)]

\* the summary box: Subtotal, Discount and Tax when > 0, Total
invoiceSummary(sale) ==
    [subtotal |-> toFixed2(sale.subtotal),
     discount |-> IF sale.discount > 0 THEN toFixed2(sale.discount) ELSE <<>>,
     tax |-> IF sale.tax > 0 THEN toFixed2(sale.tax) ELSE <<>>,
     total |-> toFixed2(IF sale.totalAmount # 0 THEN sale.totalAmount
                        ELSE Max(0, sale.subtotal - sale.discount + sale.tax))]

\* the PDF of an itemized sale with at least one item
ItemizedPdf(id, sale) ==
    [kind |-> "pdf", filename |-> invoiceFilename(id), layout |-> "items",
     customer |-> IF Truthy(sale.customerName) THEN sale.customerName.s
                  ELSE <<"C", "u", "s", "t", "o", "m", "e", "r">>,
     rows |-> [k \in 1..Len(sale.items) |-> invoiceRow(sale.items[k])],
     summary |-> invoiceSummary(sale)]

\* the PDF of a simple sale: one row "Sale" with the amount, and the total
SimplePdf(id, simple) ==
    [kind |-> "pdf", filename |-> invoiceFilename(id), layout |-> "amount",
     customer |-> simple.customerName,
     rows |-> <<[name |-> <<"S", "a", "l", "e">>, amount |-> toFixed2(simple.amount)]>>,
     summary |-> [total |-> toFixed2(simple.amount)]]

\* handleInvoice (POST and GET /getInvoice, GET /sales/invoice/:id).  The
\* two findOne calls are taken as one step: no route changes a document
\* they can return.  In the else branch the handler reads simple.amount,
\* which throws when the sale is not a simple one
Invoice(saleId) ==
    /\ requireAuth
    /\ LET route == "GET /sales/invoice/:id"
           simple == SimpleSaleFindOne(saleId, session.userId)
           found == SaleFindOne(saleId, session.userId)
       IN  \/ /\ saleId = <<>>
              /\ http' = Reply(route, saleId, "400", "none", {}, NoBody)
           \/ /\ saleId # <<>>
              /\ http' = Reply(route, saleId, "500", "none", {"db"}, NoBody)
           \/ /\ saleId # <<>>
              /\ ~IsObjectId(saleId)
              /\ http' = Reply(route, saleId, "500", "none", {"CastError"}, NoBody)
           \/ /\ IsObjectId(saleId)
              /\ simple = {} /\ found = {}
              /\ http' = Reply(route, saleId, "404", "none", {}, NoBody)
           \/ /\ IsObjectId(saleId)
              /\ simple # {}
              /\ http' = Reply(route, saleId, "200", "none", {},
                               SimplePdf(saleId, simpleSales[CHOOSE n \in simple : TRUE]))
           \/ /\ IsObjectId(saleId)
              /\ simple = {} /\ found # {}
              /\ LET sale == sales[CHOOSE n \in found : TRUE]
                 IN  http' = IF sale.items # <<>>
                             THEN Reply(route, saleId, "200", "none", {},
                                        ItemizedPdf(saleId, sale))
                             ELSE Reply(route, saleId, "500", "none", {"TypeError"},
                                        NoBody)
    /\ UNCHANGED <<stock, simpleSales, users, session, strictQuery, uuids, inflight>>
    /\ UNCHANGED <<payrollVars, salesVars>>

(***************************************************************************)
(* The employee routes.  Each makes one database call.  Of an Employee the *)
(* isActive flag and the basicSalary are kept; name, role and joiningDate  *)
(* of a request are taken as sent and valid.                               *)
(***************************************************************************)
\* the _id of Employee document e
EmployeeId(e) == ObjectId("e", e)

\* Employee.findById(id): the documents with that _id
findById(id) == {e \in DOMAIN employees : EmployeeId(e) = id}

\* an :id that is no ObjectId
NotAnId == <<"x">>

\* POST /employees/add: employee.save() validates basicSalary (required,
\* a number, min 0) and inserts with isActive at its default
EmployeesAdd(body) ==
    LET route == "POST /employees/add"
        basicSalary == parseFloat(Get(body, "basicSalary"))
        id == Cardinality(DOMAIN employees) + 1
    IN
    /\ requireAuth
    /\ id \in EmployeeIds
    /\ \/ /\ ~basicSalary.nan /\ basicSalary.v >= 0
          /\ employees' = employees @@ (id :> [isActive |-> TRUE,
                                               basicSalary |-> basicSalary.v])
          /\ http' = Reply(route, <<>>, "302", "/employees", {}, NoBody)
       \/ /\ basicSalary.nan \/ basicSalary.v < 0
          /\ employees' = employees
          /\ http' = Reply(route, <<>>, "500", "none", {"validation"}, NoBody)
       \/ /\ employees' = employees
          /\ http' = Reply(route, <<>>, "500", "none", {"db"}, NoBody)
    /\ UNCHANGED <<attendance, advances, salaries, included, runs, requests>>
    /\ UNCHANGED <<stock, simpleSales, users, session, strictQuery, uuids, inflight>>
    /\ UNCHANGED salesVars

\* GET /employees/edit/:id
EmployeesEditPage(id) ==
    LET route == "GET /employees/edit/:id" IN
    /\ requireAuth
    /\ \/ /\ IsObjectId(id) /\ findById(id) # {}
          /\ http' = Reply(route, id, "200", "none", {},
                           [kind |-> "employees/edit",
                            employee |-> employees[CHOOSE e \in findById(id) : TRUE]])
       \/ /\ IsObjectId(id) /\ findById(id) = {}
          /\ http' = Reply(route, id, "404", "none", {}, NoBody)
       \/ /\ ~IsObjectId(id)
          /\ http' = Reply(route, id, "500", "none", {"CastError"}, NoBody)
       \/ http' = Reply(route, id, "500", "none", {"db"}, NoBody)
    /\ UNCHANGED <<stock, simpleSales, users, session, strictQuery, uuids, inflight>>
    /\ UNCHANGED <<payrollVars, salesVars>>

\* POST /employees/edit/:id: findByIdAndUpdate casts the update, runs no
\* validator, and resolves to null when no document has the id
EmployeesEdit(id, body) ==
    LET route == "POST /employees/edit/:id"
        basicSalary == parseFloat(Get(body, "basicSalary"))
    IN
    /\ requireAuth
    /\ \/ /\ IsObjectId(id) /\ ~basicSalary.nan
          /\ employees' = [e \in DOMAIN employees |->
                             IF e \in findById(id)
                             THEN [employees[e] EXCEPT !.basicSalary = basicSalary.v]
                             ELSE employees[e]]
          /\ http' = Reply(route, id, "302", "/employees", {}, NoBody)
       \/ /\ ~IsObjectId(id) \/ basicSalary.nan
          /\ employees' = employees
          /\ http' = Reply(route, id, "500", "none", {"CastError"}, NoBody)
       \/ /\ employees' = employees
          /\ http' = Reply(route, id, "500", "none", {"db"}, NoBody)
    /\ UNCHANGED <<attendance, advances, salaries, included, runs, requests>>
    /\ UNCHANGED <<stock, simpleSales, users, session, strictQuery, uuids, inflight>>
    /\ UNCHANGED salesVars

\* POST /employees/delete/:id: findByIdAndUpdate(id, { isActive: false })
EmployeesDelete(id) ==
    LET route == "POST /employees/delete/:id" IN
    /\ requireAuth
    /\ \/ /\ IsObjectId(id)
          /\ employees' = [e \in DOMAIN employees |->
                             IF e \in findById(id)
                             THEN [employees[e] EXCEPT !.isActive = FALSE]
                             ELSE employees[e]]
          /\ http' = Reply(route, id, "302", "/employees", {}, NoBody)
       \/ /\ ~IsObjectId(id)
          /\ employees' = employees
          /\ http' = Reply(route, id, "500", "none", {"CastError"}, NoBody)
       \/ /\ employees' = employees
          /\ http' = Reply(route, id, "500", "none", {"db"}, NoBody)
    /\ UNCHANGED <<attendance, advances, salaries, included, runs, requests>>
    /\ UNCHANGED <<stock, simpleSales, users, session, strictQuery, uuids, inflight>>
    /\ UNCHANGED salesVars

\* GET /employees/salary/:id: Employee.findById, then Salary.find and
\* Advance.find, which change nothing, taken as one step
SalaryDetails(id) ==
    LET route == "GET /employees/salary/:id" IN
    /\ requireAuth
    /\ \/ /\ IsObjectId(id) /\ findById(id) # {}
          /\ LET e == CHOOSE x \in findById(id) : TRUE
             IN  http' = Reply(route, id, "200", "none", {},
                               [kind |-> "employees/salary-details",
                                employee |-> employees[e],
                                salaries |-> {k \in 1..Len(salaries) :
                                                 salaries[k].employeeId = e}])
       \/ /\ IsObjectId(id) /\ findById(id) = {}
          /\ http' = Reply(route, id, "404", "none", {}, NoBody)
       \/ /\ ~IsObjectId(id)
          /\ http' = Reply(route, id, "500", "none", {"CastError"}, NoBody)
       \/ http' = Reply(route, id, "500", "none", {"db"}, NoBody)
    /\ UNCHANGED <<stock, simpleSales, users, session, strictQuery, uuids, inflight>>
    /\ UNCHANGED <<payrollVars, salesVars>>

(***************************************************************************)
(* Sessions.  The User model is not among the sources: of a user the name, *)
(* the stored password and the isActive flag are kept, and comparePassword *)
(* holds for exactly the password the stored one was made from.            *)
(***************************************************************************)
\* what the User model stores for a password
Hash(password) == <<"#">> \o password

\* user.comparePassword(candidate)
comparePassword(user, candidate) == user.password = Hash(candidate)

\* User.findOne({ $or: [{ username }, ...], isActive: true }): the matches
ActiveUser(username) ==
    {n \in 1..Len(users) : users[n].username = username /\ users[n].isActive}

\* the routes registered with requireAuth
ProtectedRoutes ==
    {"GET /", "GET /sales", "GET /stock", "GET /stock/add", "POST /stock/add",
     "GET /stock/edit/:id", "POST /stock/edit/:id", "POST /stock/delete/:id",
     "GET /products", "GET /products/add", "POST /products/add",
     "GET /products/edit/:id", "POST /products/edit/:id",
     "POST /products/delete/:id", "POST /getInvoice", "GET /getInvoice",
     "GET /sales/invoice/:id", "GET /reports", "GET /sales/add-multiple",
     "GET /sales/add", "POST /sales/add", "GET /employees", "GET /employees/add",
     "POST /employees/add", "GET /employees/edit/:id", "POST /employees/edit/:id",
     "POST /employees/delete/:id", "GET /employees/salary",
     "POST /employees/salary/calculate", "GET /employees/salary/:id"}

\* requireAuth without req.session.userId: res.redirect('/auth/login')
Unauthenticated(route) ==
    /\ ~requireAuth
    /\ http' = Reply(route, <<>>, "302", "/auth/login", {}, NoBody)
    /\ UNCHANGED <<stock, simpleSales, users, session, strictQuery, uuids, inflight>>
    /\ UNCHANGED <<payrollVars, salesVars>>

\* GET /auth/login and GET /auth/register
AuthPage(route) ==
    /\ http' = IF session.userId # NoUser
               THEN Reply(route, <<>>, "302", "/", {}, NoBody)
               ELSE Reply(route, <<>>, "200", "none", {}, [kind |-> "auth"])
    /\ UNCHANGED <<stock, simpleSales, users, session, strictQuery, uuids, inflight>>
    /\ UNCHANGED <<payrollVars, salesVars>>

\* POST /auth/login: findOne, comparePassword and save taken as one step;
\* every failure is answered by rendering the login page again
Login(body) ==
    LET route == "POST /auth/login"
        found == ActiveUser(FileString(Get(body, "username")))
        user == users[CHOOSE n \in found : TRUE]
        error == [kind |-> "auth", error |-> TRUE]
    IN
    /\ \/ /\ found # {}
          /\ comparePassword(user, FileString(Get(body, "password")))
          /\ session' = [userId |-> user.id]
          /\ http' = Reply(route, <<>>, "302", "/", {}, NoBody)
       \/ /\ IF found = {} THEN TRUE
             ELSE ~comparePassword(user, FileString(Get(body, "password")))
          /\ session' = session
          /\ http' = Reply(route, <<>>, "200", "none", {}, error)
       \/ /\ session' = session
          /\ http' = Reply(route, <<>>, "200", "none", {"db"}, error)
    /\ UNCHANGED <<stock, simpleSales, users, strictQuery, uuids, inflight>>
    /\ UNCHANGED <<payrollVars, salesVars>>

\* POST /auth/register: the new account is active; the session is not set
Register(body) ==
    LET route == "POST /auth/register"
        username == FileString(Get(body, "username"))
        existingUser == {n \in 1..Len(users) : users[n].username = username}
        error == [kind |-> "auth", error |-> TRUE]
    IN
    /\ \/ /\ Get(body, "password") # Get(body, "confirmPassword")
          /\ users' = users
          /\ http' = Reply(route, <<>>, "200", "none", {}, error)
       \/ /\ Get(body, "password") = Get(body, "confirmPassword")
          /\ existingUser # {}
          /\ users' = users
          /\ http' = Reply(route, <<>>, "200", "none", {}, error)
       \/ /\ Get(body, "password") = Get(body, "confirmPassword")
          /\ existingUser = {}
          /\ users' = Append(users, [id |-> Len(users) + 1, username |-> username,
                                     password |-> Hash(FileString(Get(body, "password"))),
                                     isActive |-> TRUE])
          /\ http' = Reply(route, <<>>, "200", "none", {}, [kind |-> "auth"])
       \/ /\ Get(body, "password") = Get(body, "confirmPassword")
          /\ users' = users
          /\ http' = Reply(route, <<>>, "200", "none", {"db"}, error)
    /\ UNCHANGED <<stock, simpleSales, session, strictQuery, uuids, inflight>>
    /\ UNCHANGED <<payrollVars, salesVars>>

\* POST /auth/logout: req.session.destroy; when the store fails to destroy
\* the session it stays, and the answer is the same redirect
Logout ==
    /\ \/ /\ session' = [userId |-> NoUser]
          /\ http' = Reply("POST /auth/logout", <<>>, "302", "/auth/login", {}, NoBody)
       \/ /\ session' = session
          /\ http' = Reply("POST /auth/logout", <<>>, "302", "/auth/login",
                           {"session"}, NoBody)
    /\ UNCHANGED <<stock, simpleSales, users, strictQuery, uuids, inflight>>
    /\ UNCHANGED <<payrollVars, salesVars>>

\* GET /, GET /stock/add, GET /products/add, GET /employees/add: a view
\* rendered without reading data
Page(route) ==
    /\ requireAuth
    /\ http' = Reply(route, <<>>, "200", "none", {}, [kind |-> "page"])
    /\ UNCHANGED <<stock, simpleSales, users, session, strictQuery, uuids, inflight>>
    /\ UNCHANGED <<payrollVars, salesVars>>

\* GET /stock, which renders the stock file, and GET /products,
\* GET /sales/add, GET /sales/add-multiple, which render the products file
FilePage(route) ==
    /\ requireAuth
    /\ \E readOk \in BOOLEAN :
         http' = Reply(route, <<>>, "200", "none", Failed(readOk, TRUE),
                       [kind |-> "list",
                        entries |-> readData(IF route = "GET /stock" THEN stock
                                             ELSE catalog, readOk)])
    /\ UNCHANGED <<stock, simpleSales, users, session, strictQuery, uuids, inflight>>
    /\ UNCHANGED <<payrollVars, salesVars>>

\* GET /sales: SimpleSale.find({ userId }) and Sale.find({ userId }).  As
\* in SaleFindOne, the userId condition on Sale is removed with strictQuery
\* and matches no stored Sale without it
SalesList ==
    /\ requireAuth
    /\ \/ http' = Reply("GET /sales", <<>>, "200", "none", {},
                        [kind |-> "sales/list",
                         simpleSales |-> {n \in 1..Len(simpleSales) :
                                            simpleSales[n].userId = session.userId},
                         multiSales |-> {n \in 1..Len(sales) : strictQuery}])
       \/ http' = Reply("GET /sales", <<>>, "500", "none", {"db"}, NoBody)
    /\ UNCHANGED <<stock, simpleSales, users, session, strictQuery, uuids, inflight>>
    /\ UNCHANGED <<payrollVars, salesVars>>

\* GET /employees, GET /employees/salary: the result of queries inside
\* try/catch
DbPage(route) ==
    /\ requireAuth
    /\ \/ http' = Reply(route, <<>>, "200", "none", {}, [kind |-> "page"])
       \/ http' = Reply(route, <<>>, "500", "none", {"db"}, NoBody)
    /\ UNCHANGED <<stock, simpleSales, users, session, strictQuery, uuids, inflight>>
    /\ UNCHANGED <<payrollVars, salesVars>>

\* GET /reports: the handler awaits SimpleSale.find outside any try block.
\* When the query rejects, the rejection leaves the handler: the framework
\* either never answers the request or answers 500 from its own error
\* handler, depending on its version
Reports ==
    /\ requireAuth
    /\ \E readProducts \in BOOLEAN, readStock \in BOOLEAN :
         LET failed == Failed(readProducts /\ readStock, TRUE) IN
         \/ http' = Reply("GET /reports", <<>>, "200", "none", failed,
                          [kind |-> "reports/dashboard",
                           products |-> readData(catalog, readProducts),
                           stock |-> readData(stock, readStock)])
         \/ \E status \in {"none", "500"} :
              http' = Reply("GET /reports", <<>>, status, "none",
                            failed \cup {"db", "escaped"}, NoBody)
    /\ UNCHANGED <<stock, simpleSales, users, session, strictQuery, uuids, inflight>>
    /\ UNCHANGED <<payrollVars, salesVars>>

InitSales ==
    /\ catalog = ProductsFile
    /\ sales = <<>>
    /\ saleRequest = NoSaleRequest

\* the accounts: an active one and a deactivated one
Accounts ==
    <<[id |-> 1, username |-> <<"a", "n", "n">>, password |-> Hash(<<"p", "w">>),
       isActive |-> TRUE],
      [id |-> 2, username |-> <<"o", "l", "d">>, password |-> Hash(<<"q">>),
       isActive |-> FALSE]>>

\* a SimpleSale left by the single-product sale routes, which are removed
LegacySimpleSales ==
    <<[id |-> SimpleSaleId(1), userId |-> 1, customerName |-> <<"B">>,
       amount |-> 120]>>

\* the user is logged in; the ODM removes unknown paths from filters
InitWeb ==
    /\ stock = StockFile
    /\ simpleSales = LegacySimpleSales
    /\ users = Accounts
    /\ session = [userId |-> 1]
    /\ http = NoHttp
    /\ strictQuery = TRUE
    /\ uuids = 0
    /\ inflight = [r \in Slots |-> NoRequest]

Init == InitPayroll /\ InitSales /\ InitWeb

Next ==
    \E r \in Runs :
        \/ \E p \in Periods : Calculate(r, p[1], p[2])
        \/ FindOne(r)
        \/ AttendanceFind(r)
        \/ AdvanceFind(r)
        \/ SalarySave(r)
        \/ AdvanceUpdateMany(r)
        \/ DbError(r)

Spec == Init /\ [][Next]_vars

(***************************************************************************)
(* Calendar months only: one request at a time over a wider set of         *)
(* (month, year) pairs.                                                    *)
(***************************************************************************)
CalendarPeriods ==
    {<<m, 2023>> : m \in 1..12}
    \cup {<<2, y>> : y \in {1900, 2000, 2024, 2100}}

InitCalendar ==
    /\ employees = (1 :> [isActive |-> TRUE, basicSalary |-> 3000])
                   @@ (2 :> [isActive |-> FALSE, basicSalary |-> 3100])
    /\ attendance = {AttendanceRow(1, Instant(2023, 2, 28, 1), "present"),
                     AttendanceRow(1, Instant(2024, 2, 29, 0), "present"),
                     AttendanceRow(1, Instant(2100, 2, 28, 0), "half-day")}
    /\ advances = (1 :> AdvanceDoc(1, 100, Instant(2024, 2, 29, 1)))
    /\ salaries = <<>>
    /\ included = <<>>
    /\ runs = [r \in Runs |-> IdleRun]
    /\ requests = 0
    /\ InitSales
    /\ InitWeb

NextCalendar ==
    \/ \E p \in CalendarPeriods : Calculate(1, p[1], p[2])
    \/ FindOne(1)
    \/ AttendanceFind(1)
    \/ AdvanceFind(1)
    \/ SalarySave(1)
    \/ AdvanceUpdateMany(1)
    \/ DbError(1)

SpecCalendar == InitCalendar /\ [][NextCalendar]_vars

(***************************************************************************)
(* The batch over a month of full attendance: employee 1 is present on     *)
(* each of the 30 days of April 2024, employee 2 on each day of May 2024   *)
(* for half a day.                                                         *)
(***************************************************************************)
FullMonthSalaries == {3000, 8000}

InitFullMonth ==
    /\ \E b \in FullMonthSalaries :
         employees = (1 :> [isActive |-> TRUE, basicSalary |-> b])
                     @@ (2 :> [isActive |-> TRUE, basicSalary |-> 3100])
    /\ attendance =
         {AttendanceRow(1, Instant(2024, 4, d, 0), "present") : d \in 1..30}
         \cup {AttendanceRow(2, Instant(2024, 5, d, 1), "half-day") : d \in 1..31}
         \cup {AttendanceRow(2, Instant(2024, 4, 30, 1), "absent")}
    /\ \E ids \in AdvanceTables : advances = [a \in ids |-> AllAdvances[a]]
    /\ salaries = <<>>
    /\ included = <<>>
    /\ runs = [r \in Runs |-> IdleRun]
    /\ requests = 0
    /\ InitSales
    /\ InitWeb

NextFullMonth ==
    \/ \E r \in Runs, p \in Periods : Calculate(r, p[1], p[2])
    \/ \E r \in Runs : FindOne(r)
    \/ \E r \in Runs : AttendanceFind(r)
    \/ \E r \in Runs : AdvanceFind(r)
    \/ \E r \in Runs : SalarySave(r)
    \/ \E r \in Runs : AdvanceUpdateMany(r)

SpecFullMonth == InitFullMonth /\ [][NextFullMonth]_vars

\* the same requests when every awaited database call resolves: a request
\* that is suspended at an await is resumed
InitRace ==
    /\ employees = (1 :> [isActive |-> TRUE, basicSalary |-> 3000])
                   @@ (2 :> [isActive |-> TRUE, basicSalary |-> 3100])
    /\ attendance = SparseAttendance
    /\ advances = [a \in {1, 3} |-> AllAdvances[a]]
    /\ salaries = <<>>
    /\ included = <<>>
    /\ runs = [r \in Runs |-> IdleRun]
    /\ requests = 0
    /\ InitSales
    /\ InitWeb

SpecRace ==
    /\ InitRace
    /\ [][NextFullMonth]_vars
    /\ \A r \in Runs :
         WF_vars(\/ FindOne(r)
                 \/ AttendanceFind(r)
                 \/ AdvanceFind(r)
                 \/ SalarySave(r)
                 \/ AdvanceUpdateMany(r))

(***************************************************************************)
(* Sales only: the payroll collections stay as they are.                   *)
(***************************************************************************)
InitSalesOnly ==
    /\ employees = (1 :> [isActive |-> TRUE, basicSalary |-> 3000])
                   @@ (2 :> [isActive |-> TRUE, basicSalary |-> 3100])
    /\ attendance = {}
    /\ advances = << >>
    /\ salaries = <<>>
    /\ included = <<>>
    /\ runs = [r \in Runs |-> IdleRun]
    /\ requests = 0
    /\ InitSales
    /\ InitWeb

NextSales == \E body \in Bodies : SalesAdd(body)

SpecSales == InitSalesOnly /\ [][NextSales]_vars

(***************************************************************************)
(* The product catalog, the sales made from it and their invoices.         *)
(***************************************************************************)
NewProductItem ==
    [productId |-> Str(uuidv4(1)), productName |-> Str(<<"Z">>),
     quantity |-> Str(<<"4">>), price |-> Str(<<"3", "0">>)]

NamedItem ==
    [productId |-> Str(<<"p", "9">>), productName |-> Str(<<"Y">>),
     quantity |-> Str(<<"1">>), price |-> Str(<<"7">>)]

CatalogSaleBodies ==
    {[customerName |-> Customer, products |-> items] :
        items \in {<<>>, <<KesarItem, NamedItem>>, <<NewProductItem, LooseItem>>}}

ProductBodies ==
    {[name |-> Str(<<"M", "a", "v", "a">>), price |-> Str(<<"3", "0", "0">>)],
     [price |-> Str(<<"a", "b", "c">>)]}

ProductIds == {<<"p", "1">>, <<"p", "9">>}

SaleIds == {<<>>, <<"x">>, SaleId(1), SaleId(2), SimpleSaleId(1)}

InitCatalog ==
    /\ employees = (1 :> [isActive |-> TRUE, basicSalary |-> 3000])
                   @@ (2 :> [isActive |-> TRUE, basicSalary |-> 3100])
    /\ attendance = {}
    /\ advances = << >>
    /\ salaries = <<>>
    /\ included = <<>>
    /\ runs = [r \in Runs |-> IdleRun]
    /\ requests = 0
    /\ InitSales
    /\ stock = StockFile
    /\ simpleSales = LegacySimpleSales
    /\ users = Accounts
    /\ session = [userId |-> 1]
    /\ http = NoHttp
    /\ strictQuery \in BOOLEAN
    /\ uuids = 0
    /\ inflight = [r \in Slots |-> NoRequest]

NextCatalog ==
    \/ \E body \in ProductBodies : ProductsAdd(body)
    \/ \E id \in ProductIds : ProductsEditPage(id)
    \/ \E id \in ProductIds, body \in ProductBodies : ProductsEdit(id, body)
    \/ \E id \in ProductIds : ProductsDelete(id)
    \/ \E body \in CatalogSaleBodies : SalesAdd(body)
    \/ \E saleId \in SaleIds : Invoice(saleId)

SpecCatalog == InitCatalog /\ [][NextCatalog]_vars

(***************************************************************************)
(* The employee routes next to one payroll request at a time.              *)
(***************************************************************************)
EmployeeBodies ==
    {[basicSalary |-> Str(<<"3", "5", "0", "0">>)],
     [basicSalary |-> Str(<<"a", "b", "c">>)]}

\* the :id of a request: a document, a missing one, and no ObjectId
EmployeeParams == {EmployeeId(1), EmployeeId(9), NotAnId}

InitEmployees ==
    /\ employees = (1 :> [isActive |-> TRUE, basicSalary |-> 3000])
    /\ attendance = SparseAttendance
    /\ advances = [a \in {1, 3} |-> AllAdvances[a]]
    /\ salaries = <<>>
    /\ included = <<>>
    /\ runs = [r \in Runs |-> IdleRun]
    /\ requests = 0
    /\ InitSales
    /\ InitWeb

NextEmployees ==
    \/ Calculate(1, 4, 2024)
    \/ FindOne(1)
    \/ AttendanceFind(1)
    \/ AdvanceFind(1)
    \/ SalarySave(1)
    \/ AdvanceUpdateMany(1)
    \/ DbError(1)
    \/ \E body \in EmployeeBodies : EmployeesAdd(body)
    \/ \E id \in EmployeeParams, body \in EmployeeBodies : EmployeesEdit(id, body)
    \/ \E id \in EmployeeParams : EmployeesDelete(id)

SpecEmployees == InitEmployees /\ [][NextEmployees]_vars

\* The same, with every operation running again and again: a request that
\* can be sent is sent, and the event loop resumes a handler whose database
\* call has resolved.  (A database call need not ever fail.)
SpecLifecycle ==
    /\ InitEmployees
    /\ [][NextEmployees]_vars
    /\ WF_vars(Calculate(1, 4, 2024))
    /\ WF_vars(FindOne(1))
    /\ WF_vars(AttendanceFind(1))
    /\ WF_vars(AdvanceFind(1))
    /\ WF_vars(SalarySave(1))
    /\ WF_vars(AdvanceUpdateMany(1))
    /\ WF_vars(\E body \in EmployeeBodies : EmployeesAdd(body))
    /\ WF_vars(\E id \in EmployeeParams, body \in EmployeeBodies : EmployeesEdit(id, body))
    /\ WF_vars(\E id \in EmployeeParams : EmployeesDelete(id))

(***************************************************************************)
(* The batch for April 2024 requested again and again while an Advance is  *)
(* paid out during April; no database call fails.                          *)
(***************************************************************************)
\* two active employees, each with an Advance paid out in April
InitAdvances ==
    /\ employees = (1 :> [isActive |-> TRUE, basicSalary |-> 3000])
                   @@ (2 :> [isActive |-> TRUE, basicSalary |-> 3100])
    /\ attendance \in AttendanceTables
    /\ advances = [a \in {1, 3, 4} |-> AllAdvances[a]]
    /\ salaries = <<>>
    /\ included = <<>>
    /\ runs = [r \in Runs |-> IdleRun]
    /\ requests = 0
    /\ InitSales
    /\ InitWeb

NextAdvances ==
    \/ Calculate(1, 4, 2024)
    \/ FindOne(1)
    \/ AttendanceFind(1)
    \/ AdvanceFind(1)
    \/ SalarySave(1)
    \/ AdvanceUpdateMany(1)
    \/ AdvanceInsert(5, 1, 200, Instant(2024, 4, 20, 0))
    \/ AdvanceInsert(6, 2, 100, Instant(2024, 4, 25, 1))

\* a batch that can be requested is requested, and the event loop resumes a
\* handler whose database call has resolved
SpecAdvances ==
    /\ InitAdvances
    /\ [][NextAdvances]_vars
    /\ WF_vars(Calculate(1, 4, 2024))
    /\ WF_vars(FindOne(1))
    /\ WF_vars(AttendanceFind(1))
    /\ WF_vars(AdvanceFind(1))
    /\ WF_vars(SalarySave(1))
    /\ WF_vars(AdvanceUpdateMany(1))

(***************************************************************************)
(* Two requests to the stock file in flight together.                      *)
(***************************************************************************)
\* what the two browsers send: each adds an item or edits one, under names
\* that tell the two requests apart
SlotRequests(r) ==
    LET name == IF r = 1 THEN <<"G", "h", "e", "e">> ELSE <<"R", "a", "v", "a">>
        body == [name |-> Str(name), quantity |-> Str(<<"5">>)]
    IN  {[route |-> "POST /stock/add", id |-> <<>>, body |-> body],
         [route |-> "POST /stock/edit/:id", id |-> <<"s", Digits[r]>>, body |-> body],
         [route |-> "POST /stock/edit/:id", id |-> <<"s", "9">>, body |-> body]}

NextConcurrent ==
    \E r \in Slots :
        \/ \E request \in SlotRequests(r) : Receive(r, request)
        \/ Handle(r)

SpecConcurrent == InitEmployees /\ [][NextConcurrent]_vars

(***************************************************************************)
(* The remaining routes of the server, in two specifications.  In the      *)
(* first nobody is logged in at the start.                                 *)
(***************************************************************************)
LoginBodies ==
    {[username |-> Str(u), password |-> Str(pw)] :
        u \in {<<"a", "n", "n">>, <<"o", "l", "d">>, <<"b", "o", "b">>},
        pw \in {<<"p", "w">>, <<"q">>}}

RegisterBodies ==
    {[username |-> Str(<<"b", "o", "b">>), password |-> Str(<<"q">>),
      confirmPassword |-> Str(pw)] : pw \in {<<"q">>, <<"p", "w">>}}

StockBodies == {[name |-> Str(<<"G", "h", "e", "e">>), quantity |-> Str(<<"5">>)]}

StockIds == {<<"s", "1">>, <<"s", "9">>}

RouteProductBodies == {[name |-> Str(<<"M", "a", "v", "a">>), price |-> Str(<<"3", "0", "0">>)]}

RouteSaleBodies == {[customerName |-> Customer, products |-> <<KesarItem, NamedItem>>]}

InitRoutes ==
    /\ employees = (1 :> [isActive |-> TRUE, basicSalary |-> 3000])
    /\ attendance = {}
    /\ advances = << >>
    /\ salaries = <<>>
    /\ included = <<>>
    /\ runs = [r \in Runs |-> IdleRun]
    /\ requests = 0
    /\ InitSales
    /\ stock = StockFile
    /\ simpleSales = LegacySimpleSales
    /\ users = Accounts
    /\ session = [userId |-> NoUser]
    /\ http = NoHttp
    /\ strictQuery = TRUE
    /\ uuids = 0
    /\ inflight = [r \in Slots |-> NoRequest]

\* the session routes, the pages, the two routes that add to a file and one
\* that deletes from it
NextAuth ==
    \/ \E route \in ProtectedRoutes : Unauthenticated(route)
    \/ \E route \in {"GET /auth/login", "GET /auth/register"} : AuthPage(route)
    \/ \E body \in LoginBodies : Login(body)
    \/ \E body \in RegisterBodies : Register(body)
    \/ Logout
    \/ \E route \in {"GET /", "GET /stock/add", "GET /products/add",
                     "GET /employees/add"} : Page(route)
    \/ \E route \in {"GET /stock", "GET /products", "GET /sales/add",
                     "GET /sales/add-multiple"} : FilePage(route)
    \/ SalesList
    \/ \E route \in {"GET /employees", "GET /employees/salary"} : DbPage(route)
    \/ \E body \in StockBodies : StockAdd(body)
    \/ \E id \in StockIds : StockDelete(id)
    \/ \E body \in RouteProductBodies : ProductsAdd(body)

SpecAuth == InitRoutes /\ [][NextAuth]_vars

\* the routes that take the id of a document, a sale to download, the reports
\* and the logout; the user is logged in at the start
NextTargets ==
    \/ \E id \in StockIds : StockEditPage(id)
    \/ \E id \in StockIds, body \in StockBodies : StockEdit(id, body)
    \/ \E id \in StockIds : StockDelete(id)
    \/ \E id \in ProductIds : ProductsEditPage(id)
    \/ \E id \in ProductIds, body \in RouteProductBodies : ProductsEdit(id, body)
    \/ \E id \in ProductIds : ProductsDelete(id)
    \/ \E body \in RouteSaleBodies : SalesAdd(body)
    \/ \E saleId \in SaleIds : Invoice(saleId)
    \/ \E id \in EmployeeParams : EmployeesEditPage(id)
    \/ \E id \in EmployeeParams, body \in EmployeeBodies : EmployeesEdit(id, body)
    \/ \E id \in EmployeeParams : EmployeesDelete(id)
    \/ \E id \in EmployeeParams : SalaryDetails(id)
    \/ Reports
    \/ Logout

SpecTargets == InitEmployees /\ [][NextTargets]_vars

(***************************************************************************)
(* Two users, one after the other in the same browser, and a sale.         *)
(***************************************************************************)
NextOwnership ==
    \/ \E body \in RouteSaleBodies : SalesAdd(body)
    \/ SalesList
    \/ \E saleId \in SaleIds : Invoice(saleId)
    \/ Logout
    \/ \E body \in LoginBodies : Login(body)
    \/ \E body \in RegisterBodies : Register(body)

SpecOwnership == InitCatalog /\ [][NextOwnership]_vars

(***************************************************************************)
(* Properties of the payroll batch.                                        *)
(***************************************************************************)
\* the Salary rows of one (employeeId, month, year)
RowsFor(e, month, year) ==
    {k \in 1..Len(salaries) :
        salaries[k].employeeId = e /\ salaries[k].month = month /\ salaries[k].year = year}

\* run slot r is inside the loop body for employee e of period (month, year)
Processing(r, e, month, year) ==
    /\ runs[r].pc # "idle"
    /\ runs[r].employees[runs[r].i].id = e
    /\ runs[r].month = month
    /\ runs[r].year = year

\* the instant lies in the calendar month (read off the instant itself)
InMonth(t, month, year) == t \div 62 = year * 12 + (month - 1)

RECURSIVE SumOfAmounts(_)
SumOfAmounts(ids) ==
    IF ids = {} THEN 0
    ELSE LET a == CHOOSE x \in ids : TRUE
         IN  advances[a].amount + SumOfAmounts(ids \ {a})

\* C1: a batch request that meets an employee who already has a Salary row
\* for the requested period, written by an earlier request, writes nothing
\* for that employee (no Salary insert or update, no Advance update); an
\* existing Salary row is never changed, removed or joined by a second row
\* for the same employee and period.
C1_SecondRunWritesNothing ==
    [][/\ \A k \in 1..Len(salaries) :
              /\ Len(salaries') >= k
              /\ salaries'[k] = salaries[k]
              /\ \A j \in 1..Len(salaries') :
                     (/\ salaries'[j].employeeId = salaries[k].employeeId
                      /\ salaries'[j].month = salaries[k].month
                      /\ salaries'[j].year = salaries[k].year) => j = k
       /\ \A r \in Runs : \A k \in 1..Len(salaries) :
              (/\ Processing(r, salaries[k].employeeId, salaries[k].month, salaries[k].year)
               /\ included[k].request # runs[r].request
               /\ runs'[r] # runs[r])
              => (salaries' = salaries /\ advances' = advances)]_vars

\* a later request has passed employee 1 (it is at employee 2) although the
\* row of employee 1 for its period was written by another request
C1_Witness ==
    \E r \in Runs : \E k \in 1..Len(salaries) :
        /\ runs[r].pc = "findOne"
        /\ runs[r].i = 2
        /\ runs[r].employees[1].id = salaries[k].employeeId
        /\ runs[r].month = salaries[k].month
        /\ runs[r].year = salaries[k].year
        /\ included[k].request < runs[r].request
        /\ \A q \in Runs \ {r} : runs[q].pc = "idle"

\* C2: under every interleaving of concurrent batch requests there is at most
\* one Salary row per (employeeId, month, year) and no Advance is included in
\* two Salary rows; a request whose Salary save meets an existing row ends
\* there with an error response, having inserted nothing and marked no Advance.
C2_RaceLoserWritesNothing ==
    /\ [](\A k \in 1..Len(salaries) : \A j \in 1..Len(salaries) :
            /\ (/\ salaries[j].employeeId = salaries[k].employeeId
                /\ salaries[j].month = salaries[k].month
                /\ salaries[j].year = salaries[k].year) => j = k
            /\ (j # k => included[j].advances \cap included[k].advances = {}))
    /\ [][\A r \in Runs :
            (/\ runs[r].pc = "save"
             /\ RowsFor(runs[r].employees[runs[r].i].id, runs[r].month, runs[r].year) # {}
             /\ runs'[r] # runs[r])
            => (/\ salaries' = salaries
                /\ advances' = advances
                /\ runs'[r].pc = "idle"
                /\ runs'[r].response = "500"
                /\ runs'[r].error \in {"E11000", "db"})]_vars

\* a request lost the race: its save was rejected by the unique index while
\* the winner's row stands and the winner has not yet marked its advances
C2_Witness ==
    \E r \in Runs : \E q \in Runs \ {r} :
        /\ runs[r].error = "E11000"
        /\ runs[r].response = "500"
        /\ runs[q].pc = "updateMany"
        /\ runs[q].advances # {}

\* C3: once no batch request is in flight, an Advance is marked deducted if
\* and only if it was included in the deductions of a persisted Salary row.
C3_DeductedIffIncluded ==
    (\A r \in Runs : runs[r].pc = "idle")
    => \A a \in DOMAIN advances :
           advances[a].isDeducted
           <=> (\E k \in 1..Len(salaries) : a \in included[k].advances)

\* C4: every persisted Salary row has
\* netSalary = max(0, calculatedSalary - advanceDeductions), so netSalary >= 0.
C4_NetSalaryClamped ==
    \A k \in 1..Len(salaries) :
        LET c == salaries[k].calculatedSalary
            n == salaries[k].netSalary
            diff == c.n - salaries[k].advanceDeductions * c.d
        IN  /\ c.d > 0
            /\ n.d > 0
            /\ n.n >= 0
            /\ n.n * c.d = Max(0, diff) * n.d

\* calculatedSalary 2200 with advanceDeductions 2500 gives netSalary 0
C4_Witness ==
    \E k \in 1..Len(salaries) :
        /\ RatEq(salaries[k].calculatedSalary, Rat(2200, 1))
        /\ salaries[k].advanceDeductions = 2500
        /\ RatEq(salaries[k].netSalary, Rat(0, 1))

\* C5: in every persisted Salary row, presentDays, absentDays and halfDays are
\* the numbers of the employee's Attendance rows of that status dated in the
\* requested calendar month, and
\* calculatedSalary = (presentDays + halfDays / 2) * basicSalary / totalWorkingDays.
C5_AttendanceCounts ==
    \A k \in 1..Len(salaries) :
        LET row == salaries[k]
            count(status) ==
                Cardinality({a \in attendance :
                                /\ a.employeeId = row.employeeId
                                /\ InMonth(a.date, row.month, row.year)
                                /\ a.status = status})
        IN  /\ row.presentDays = count("present")
            /\ row.absentDays = count("absent")
            /\ row.halfDays = count("half-day")
            /\ row.calculatedSalary.d > 0
            /\ row.calculatedSalary.n * 2 * row.totalWorkingDays
                 = (2 * count("present") + count("half-day")) * row.basicSalary
                   * row.calculatedSalary.d

\* basicSalary 3000, 30-day month, 20 present, 4 half-days, 6 absent: 2200
C5_Witness ==
    \E k \in 1..Len(salaries) :
        /\ salaries[k].basicSalary = 3000
        /\ salaries[k].totalWorkingDays = 30
        /\ salaries[k].presentDays = 20
        /\ salaries[k].halfDays = 4
        /\ salaries[k].absentDays = 6
        /\ RatEq(salaries[k].calculatedSalary, Rat(2200, 1))

\* the Advance rows the claim counts for employee e and period (month, year)
UndeductedInMonth(e, month, year) ==
    {a \in DOMAIN advances :
        /\ advances[a].employeeId = e
        /\ ~advances[a].isDeducted
        /\ InMonth(advances[a].createdAt, month, year)}

\* C6: the advanceDeductions a request computes for an employee is the sum of
\* the amounts of exactly the employee's Advance rows that, at the query, are
\* not deducted and were created in the requested month; a persisted Salary
\* row stores that sum.
C6_AdvanceDeductions ==
    /\ [][\A r \in Runs :
            (runs[r].pc = "advances" /\ runs'[r].pc = "save")
            => LET e == runs[r].employees[runs[r].i].id
                   expected == UndeductedInMonth(e, runs[r].month, runs[r].year)
               IN  /\ runs'[r].advances = expected
                   /\ runs'[r].advanceDeductions = SumOfAmounts(expected)]_vars
    /\ [](\A k \in 1..Len(salaries) :
            /\ salaries[k].advanceDeductions = SumOfAmounts(included[k].advances)
            /\ \A a \in included[k].advances :
                   /\ advances[a].employeeId = salaries[k].employeeId
                   /\ InMonth(advances[a].createdAt, salaries[k].month, salaries[k].year))

\* a request found nothing to deduct for its employee although the employee
\* has an advance of that month (already deducted) and advances of another
\* month and of another employee exist
C6_Witness ==
    \E r \in Runs :
        /\ runs[r].pc = "save"
        /\ runs[r].advances = {}
        /\ \E a \in DOMAIN advances :
               /\ advances[a].employeeId = runs[r].employees[runs[r].i].id
               /\ InMonth(advances[a].createdAt, runs[r].month, runs[r].year)
               /\ advances[a].isDeducted
        /\ \E a \in DOMAIN advances :
               /\ advances[a].employeeId = runs[r].employees[runs[r].i].id
               /\ ~InMonth(advances[a].createdAt, runs[r].month, runs[r].year)
        /\ \E a \in DOMAIN advances :
               advances[a].employeeId # runs[r].employees[runs[r].i].id

\* the Gregorian calendar's number of days of a month
GregorianDays(month, year) ==
    CASE month \in {1, 3, 5, 7, 8, 10, 12} -> 31
      [] month \in {4, 6, 9, 11} -> 30
      [] month = 2 ->
           IF year % 400 = 0 THEN 29
           ELSE IF year % 100 = 0 THEN 28
           ELSE IF year % 4 = 0 THEN 29
           ELSE 28

\* C7: the totalWorkingDays of every persisted Salary row is the Gregorian
\* number of days of the row's calendar month.
C7_TotalWorkingDays ==
    \A k \in 1..Len(salaries) :
        salaries[k].totalWorkingDays = GregorianDays(salaries[k].month, salaries[k].year)

\* rows for February of a leap year, of a century non-leap year and of a
\* common year, in one state
C7_Witness ==
    /\ \E k \in 1..Len(salaries) :
         salaries[k].month = 2 /\ salaries[k].year = 2024 /\ salaries[k].totalWorkingDays = 29
    /\ \E k \in 1..Len(salaries) :
         salaries[k].month = 2 /\ salaries[k].year = 2100 /\ salaries[k].totalWorkingDays = 28
    /\ \E k \in 1..Len(salaries) :
         salaries[k].month = 2 /\ salaries[k].year = 2023 /\ salaries[k].totalWorkingDays = 28

(***************************************************************************)
(* Properties of POST /sales/add.                                          *)
(***************************************************************************)
\* the last request was answered with the redirect: its sale is the last one
Persisted == saleRequest.response = "redirect"

LastSale == sales[Len(sales)]

\* the products list of the last request
RequestItems ==
    IF "products" \in DOMAIN saleRequest.body THEN saleRequest.body.products ELSE <<>>

\* the field is missing, empty or, for a number field, not a number or zero
Unusable(p, field, numeric) ==
    \/ field \notin DOMAIN p
    \/ p[field].t = "undefined"
    \/ p[field].s = <<>>
    \/ numeric /\ (parseFloat(p[field]).nan \/ parseFloat(p[field]).v = 0)

ShouldDrop(p) ==
    \/ Unusable(p, "productId", FALSE)
    \/ Unusable(p, "quantity", TRUE)
    \/ Unusable(p, "price", TRUE)

\* the positions of the entries that are not to be dropped, in input order
KeptPositions(list) == SortedSeq({k \in 1..Len(list) : ~ShouldDrop(list[k])})

RECURSIVE SumOfLineTotals(_)
SumOfLineTotals(items) ==
    IF items = <<>> THEN 0
    ELSE items[Len(items)].totalAmount + SumOfLineTotals(SubSeq(items, 1, Len(items) - 1))

\* C8: every item of every persisted multi-item sale has
\* totalAmount = quantity * price, whatever line total the client sent.
C8_LineTotals ==
    \A n \in 1..Len(sales) : \A k \in 1..Len(sales[n].items) :
        sales[n].items[k].totalAmount = sales[n].items[k].quantity * sales[n].items[k].price

\* a sale was persisted from an entry that carried its own line total, and
\* the stored line total is quantity * price, not the one sent
C8_Witness ==
    /\ Persisted
    /\ \E k \in 1..Len(RequestItems) : \E j \in 1..Len(LastSale.items) :
         /\ "totalAmount" \in DOMAIN RequestItems[k]
         /\ ~ShouldDrop(RequestItems[k])
         /\ LastSale.items[j].productId = RequestItems[k].productId.s
         /\ LastSale.items[j].totalAmount # parseFloat(RequestItems[k].totalAmount).v
         /\ LastSale.items[j].totalAmount = 250

\* the discount or tax field of the last request is absent or not a number
NotANumber(field) ==
    \/ field \notin DOMAIN saleRequest.body
    \/ saleRequest.body[field].t = "undefined"
    \/ parseFloat(saleRequest.body[field]).nan

\* C9: every persisted multi-item sale has subtotal = sum of its items' line
\* totals and totalAmount = max(0, subtotal - discount + tax) >= 0, with
\* discount and tax 0 when the request gave none or no number.
C9_SaleTotals ==
    /\ \A n \in 1..Len(sales) :
         /\ sales[n].subtotal = SumOfLineTotals(sales[n].items)
         /\ sales[n].totalAmount
              = Max(0, sales[n].subtotal - sales[n].discount + sales[n].tax)
         /\ sales[n].totalAmount >= 0
    /\ Persisted =>
         /\ LastSale.discount =
              IF NotANumber("discount") THEN 0 ELSE parseFloat(saleRequest.body.discount).v
         /\ LastSale.tax =
              IF NotANumber("tax") THEN 0 ELSE parseFloat(saleRequest.body.tax).v

\* items 2 x 200 and 1 x 250, discount 50, tax 10: subtotal 650, total 610
C9_Witness ==
    /\ Persisted
    /\ Len(LastSale.items) = 2
    /\ LastSale.items[1].quantity = 2 /\ LastSale.items[1].price = 200
    /\ LastSale.items[2].quantity = 1 /\ LastSale.items[2].price = 250
    /\ LastSale.discount = 50
    /\ LastSale.tax = 10
    /\ LastSale.subtotal = 650
    /\ LastSale.totalAmount = 610

\* nothing but dropped entries could make the last request invalid: the
\* customer name is given, the payment method is absent or of the enum, the
\* discount and tax are not negative, and the entries that are not to be
\* dropped have a quantity >= 1 and a price >= 0
ValidApartFromDroppedItems ==
    LET body == saleRequest.body
        amountOk(field) == NotANumber(field) \/ parseFloat(body[field]).v >= 0
    IN  /\ "customerName" \in DOMAIN body /\ body.customerName.t = "string"
        /\ body.customerName.s # <<>>
        /\ \/ "paymentMethod" \notin DOMAIN body
           \/ body.paymentMethod.t = "undefined"
           \/ body.paymentMethod.s \in PaymentMethods
        /\ amountOk("discount")
        /\ amountOk("tax")
        /\ \A k \in 1..Len(RequestItems) :
             ShouldDrop(RequestItems[k])
             \/ (/\ parseFloat(RequestItems[k].quantity).v >= 1
                 /\ parseFloat(RequestItems[k].price).v >= 0)

\* C10: the items of a persisted sale are exactly the request's entries whose
\* productId, quantity and price are all present, non-empty and (quantity,
\* price) non-zero numbers, in input order; dropped entries never make the
\* request fail validation.
C10_DroppedItems ==
    saleRequest.n > 0 =>
        /\ Persisted =>
             LET kept == KeptPositions(RequestItems)
             IN  /\ Len(LastSale.items) = Len(kept)
                 /\ \A j \in 1..Len(kept) :
                      /\ LastSale.items[j].productId = RequestItems[kept[j]].productId.s
                      /\ LastSale.items[j].quantity = parseFloat(RequestItems[kept[j]].quantity).v
                      /\ LastSale.items[j].price = parseFloat(RequestItems[kept[j]].price).v
        /\ ValidApartFromDroppedItems => saleRequest.error # "validation"

\* a two-entry request whose first entry lacks quantity was answered with the
\* redirect and its sale holds the one remaining item
C10_Witness ==
    /\ Persisted
    /\ Len(RequestItems) = 2
    /\ "quantity" \notin DOMAIN RequestItems[1]
    /\ Len(LastSale.items) = 1
    /\ LastSale.items[1].productId = RequestItems[2].productId.s

\* C11: when every entry of the products list of a POST /sales/add request is
\* dropped, or no entry is sent, the request is not rejected for that: unless
\* another field is invalid or the database fails, a Sale with an empty item
\* list and subtotal 0 is persisted and the answer is the redirect to the
\* sales list.
C11_EmptySalePersisted ==
    (/\ saleRequest.n > 0
     /\ \A k \in 1..Len(RequestItems) : ShouldDrop(RequestItems[k])) =>
        /\ ValidApartFromDroppedItems => saleRequest.error # "validation"
        /\ saleRequest.error = "none" =>
             /\ saleRequest.response = "redirect"
             /\ Len(sales) > 0
             /\ LastSale.items = <<>>
             /\ LastSale.subtotal = 0

\* a request of two entries, both dropped, was answered with the redirect and
\* its sale has no items and subtotal 0
C11_Witness ==
    /\ Persisted
    /\ Len(RequestItems) = 2
    /\ \A k \in 1..Len(RequestItems) : ShouldDrop(RequestItems[k])
    /\ LastSale.items = <<>>
    /\ LastSale.subtotal = 0

(***************************************************************************)
(* Properties of the catalog, the sales and the invoices.                  *)
(***************************************************************************)
\* the products list of a request body
ItemsOf(body) == IF "products" \in DOMAIN body THEN body.products ELSE <<>>

\* the name the products file holds for a productId, and whether it holds one
InCatalog(productId) == \E k \in 1..Len(catalog) : catalog[k].id = productId

CatalogName(productId) ==
    catalog[CHOOSE k \in 1..Len(catalog) :
              /\ catalog[k].id = productId
              /\ \A j \in 1..(k - 1) : catalog[j].id # productId].name

\* the name C12 gives to a kept entry
ResolvedName(p) ==
    IF InCatalog(p.productId.s) THEN CatalogName(p.productId.s)
    ELSE IF "productName" \in DOMAIN p /\ p.productName.t = "string"
            /\ p.productName.s # <<>>
    THEN p.productName.s
    ELSE <<"P", "r", "o", "d", "u", "c", "t">>

\* a POST /sales/add request is answered with the redirect in this step
SalePersistedNow ==
    /\ saleRequest'.n = saleRequest.n + 1
    /\ saleRequest'.response = "redirect"

\* C12: for every kept item of POST /sales/add, the stored productName is
\* the current name, in the products file, of the product whose id equals
\* the item's productId when the file holds such a product; otherwise it is
\* the productName the client sent, and "Product" when the client sent none.
C12_ProductNames ==
    [][SalePersistedNow =>
         LET list == ItemsOf(saleRequest'.body)
             kept == KeptPositions(list)
             sale == sales'[Len(sales')]
         IN  \A j \in 1..Len(kept) :
               sale.items[j].productName = ResolvedName(list[kept[j]])]_vars

\* the invoice of an itemized sale is rendered in this step
ItemizedInvoiceNow ==
    /\ http'.seq # http.seq
    /\ http'.route = "GET /sales/invoice/:id"
    /\ http'.status = "200"
    /\ http'.body.layout = "items"

\* the rows and the summary show exactly what the sale stores
ShowsStoredValues(pdf, sale) ==
    /\ Len(pdf.rows) = Len(sale.items)
    /\ \A k \in 1..Len(sale.items) :
         /\ pdf.rows[k].name = sale.items[k].productName
         /\ pdf.rows[k].qty = sale.items[k].quantity
         /\ pdf.rows[k].price = <<sale.items[k].price, 0>>
         /\ pdf.rows[k].lineTotal = <<sale.items[k].totalAmount, 0>>
    /\ pdf.summary.subtotal = <<sale.subtotal, 0>>
    /\ pdf.summary.total = <<sale.totalAmount, 0>>

\* C13: copy at creation: once a multi-item sale is persisted, no later
\* operation on the catalog (product add, edit of name or price, delete)
\* changes it, and the invoice of the sale shows the names, prices, line
\* totals, subtotal and total stored in the sale, never those of the
\* products file.
C13_CopyAtCreation ==
    [][/\ Len(sales') >= Len(sales)
       /\ \A n \in 1..Len(sales) : sales'[n] = sales[n]
       /\ ItemizedInvoiceNow =>
            \E n \in 1..Len(sales) :
                /\ SaleId(n) = http'.id
                /\ ShowsStoredValues(http'.body, sales[n])]_vars

\* the invoice of sale 1 was rendered after the product of its first item
\* was renamed or deleted in the products file; it shows the stored name
C13_Witness ==
    /\ http.route = "GET /sales/invoice/:id"
    /\ http.status = "200"
    /\ http.id = SaleId(1)
    /\ Len(sales) >= 1
    /\ sales[1].items # <<>>
    /\ sales[1].items[1].productName = <<"K", "e", "s", "a", "r">>
    /\ \A k \in 1..Len(catalog) : catalog[k].name # <<"K", "e", "s", "a", "r">>
    /\ http.body.rows[1].name = <<"K", "e", "s", "a", "r">>
    /\ http.body.rows[1].price = <<200, 0>>

\* the invoice handler answers in this step, and its queries did not fail
InvoiceAnsweredNow ==
    /\ http'.seq # http.seq
    /\ http'.route = "GET /sales/invoice/:id"
    /\ "db" \notin http'.failed

\* C18: for every sale the invoice handler resolves, simple or itemized with
\* any number of items, the empty item list included, the answer is the PDF
\* named after the first eight characters of the sale id, never an error:
\* a simple sale is rendered as one amount row, an itemized sale as the
\* items table and the summary.
C18_InvoiceForEveryResolvedSale ==
    [][InvoiceAnsweredNow =>
         LET simple == SimpleSaleFindOne(http'.id, session.userId)
             found == SaleFindOne(http'.id, session.userId)
             pdf == http'.body
         IN  (simple # {} \/ found # {}) =>
                /\ http'.status = "200"
                /\ pdf.kind = "pdf"
                /\ pdf.filename = <<"i", "n", "v", "o", "i", "c", "e", "-">>
                                  \o SubSeq(http'.id, 1, 8) \o <<".", "p", "d", "f">>
                /\ simple # {} =>
                     /\ pdf.layout = "amount"
                     /\ Len(pdf.rows) = 1
                /\ simple = {} =>
                     /\ pdf.layout = "items"
                     /\ Len(pdf.rows) = Len(sales[CHOOSE n \in found : TRUE].items)]_vars

(***************************************************************************)
(* Properties of the employee routes and of the Salary rows.               *)
(***************************************************************************)
\* POST /employees/delete/:id is answered with the redirect in this step
EmployeeDeletedNow ==
    /\ http'.seq # http.seq
    /\ http'.route = "POST /employees/delete/:id"
    /\ http'.status = "302"

\* a payroll request starts in this step (Employee.find resolves)
BatchStartsNow(r) == runs[r].pc = "idle" /\ requests' = requests + 1 /\ runs'[r].request = requests'

\* C15: no operation removes an Employee document; POST /employees/delete/:id
\* only sets isActive to false and leaves every other field and every other
\* record as they are; and a payroll batch that starts after the deletion
\* creates no Salary row for that employee: an inactive employee is never
\* made active again, a batch that starts takes exactly the employees that
\* are active then, and a Salary row is only created for an employee of the
\* creating batch's list.
C15_SoftDelete ==
    [][/\ DOMAIN employees \subseteq DOMAIN employees'
       /\ \A e \in DOMAIN employees : ~employees[e].isActive => ~employees'[e].isActive
       /\ EmployeeDeletedNow =>
            /\ \A e \in DOMAIN employees :
                 /\ employees'[e].basicSalary = employees[e].basicSalary
                 /\ employees'[e].isActive = (employees[e].isActive /\ EmployeeId(e) # http'.id)
            /\ DOMAIN employees' = DOMAIN employees
            /\ UNCHANGED <<attendance, advances, salaries, included, runs, requests>>
            /\ UNCHANGED <<salesVars, stock, simpleSales, users, session>>
       /\ \A r \in Runs : BatchStartsNow(r) =>
            /\ \A e \in DOMAIN employees :
                 employees[e].isActive
                 <=> \E j \in 1..Len(runs'[r].employees) : runs'[r].employees[j].id = e
       /\ \A k \in (Len(salaries) + 1)..Len(salaries') :
            \E r \in Runs :
               /\ runs[r].pc # "idle"
               /\ runs[r].request = included'[k].request
               /\ \E j \in 1..Len(runs[r].employees) :
                    runs[r].employees[j].id = salaries'[k].employeeId]_vars

\* employee 1 was deleted, a later batch ran to its redirect and created the
\* Salary row of employee 2 and none for employee 1
C15_Witness ==
    /\ 2 \in DOMAIN employees
    /\ ~employees[1].isActive
    /\ employees[2].isActive
    /\ employees[1].basicSalary = 3000
    /\ runs[1].response = "redirect"
    /\ RowsFor(2, 4, 2024) # {}
    /\ RowsFor(1, 4, 2024) = {}

\* the computed fields of a Salary row
Computed(row) ==
    <<row.employeeId, row.month, row.year, row.basicSalary, row.presentDays,
      row.absentDays, row.halfDays, row.totalWorkingDays, row.calculatedSalary,
      row.advanceDeductions, row.netSalary>>

SomeRowIs(status) == \E k \in 1..Len(salaries) : salaries[k].status = status

\* C19: the lifecycle of a Salary row is absent -> computed -> paid and only
\* forward: the batch creates the row with status "pending" and the
\* basicSalary of its employee list; the row is never deleted and its
\* computed fields never change, whatever is done later (edits of the
\* employee's basicSalary, later runs); the status never goes from "paid"
\* back to "pending"; and some operation of the application moves the
\* status from "pending" to "paid", so that with every operation running
\* again and again a pending row becomes paid.
C19_SalaryLifecycle ==
    /\ [][/\ Len(salaries') >= Len(salaries)
          /\ \A k \in 1..Len(salaries) :
               /\ Computed(salaries'[k]) = Computed(salaries[k])
               /\ salaries[k].status = "paid" => salaries'[k].status = "paid"
          /\ \A k \in (Len(salaries) + 1)..Len(salaries') :
               /\ salaries'[k].status = "pending"
               /\ \E r \in Runs : \E j \in 1..Len(runs[r].employees) :
                    /\ runs[r].request = included'[k].request
                    /\ runs[r].employees[j].id = salaries'[k].employeeId
                    /\ runs[r].employees[j].basicSalary = salaries'[k].basicSalary]_vars
    /\ SomeRowIs("pending") ~> SomeRowIs("paid")

\* C20: when processing one employee fails in the batch, the whole run stops:
\* the answer is 500 and the request is over, so no later employee is
\* processed by that run (only a request in flight writes, and a new request
\* gets a number never used before); the Salary rows and the Advance marks
\* written before the failure remain: nothing is rolled back, then or later.
C20_BatchAborts ==
    [][/\ \A r \in Runs :
            (runs[r].pc # "idle" /\ runs'[r].response = "500") =>
                /\ runs'[r].pc = "idle"
                /\ runs'[r].i = 0
                /\ UNCHANGED <<salaries, included, advances>>
       /\ \A k \in 1..Len(salaries) :
            /\ Len(salaries') >= k
            /\ salaries'[k] = salaries[k]
            /\ included'[k] = included[k]
       /\ \A a \in DOMAIN advances : advances[a].isDeducted => advances'[a].isDeducted
       /\ (salaries' # salaries \/ advances' # advances) =>
            \E r \in Runs :
               /\ runs[r].pc \in {"save", "updateMany"}
               /\ runs'[r].response # "500"
               /\ \A k \in (Len(salaries) + 1)..Len(salaries') :
                    included'[k].request = runs[r].request
       /\ \A r \in Runs : BatchStartsNow(r) =>
            /\ \A k \in 1..Len(salaries) : included[k].request < runs'[r].request
            /\ \A q \in Runs \ {r} : runs[q].request < runs'[r].request]_vars

\* the only request so far was answered 500 after it had written the Salary
\* row of employee 1 and marked an advance; employee 2 is active and has no
\* row: the run did not go on to employee 2, and nothing was rolled back
C20_Witness ==
    /\ requests = 1
    /\ \E r \in Runs : runs[r].response = "500" /\ runs[r].error = "db"
    /\ \A r \in Runs : runs[r].pc = "idle"
    /\ employees[1].isActive /\ employees[2].isActive
    /\ \E p \in Periods : RowsFor(1, p[1], p[2]) # {} /\ RowsFor(2, p[1], p[2]) = {}
    /\ \E a \in DOMAIN advances : advances[a].isDeducted

(***************************************************************************)
(* Properties of the session, of missing targets and of failures.          *)
(***************************************************************************)
\* a request to one of the routes is answered in this step
AnsweredNow(routes) == http'.seq # http.seq /\ http'.route \in routes

\* the business data: everything but the accounts, the session and the answer
business == <<payrollVars, salesVars, stock, simpleSales>>

\* C14 (first and second part): a request to a protected route without a
\* userId in the session is redirected to /auth/login and changes no
\* business data, and a session gets a userId only when POST /auth/login
\* redirects to / for a user that is active.
C14_GuardAndLogin ==
    [][/\ (AnsweredNow(ProtectedRoutes) /\ session.userId = NoUser) =>
            /\ http'.status = "302" /\ http'.location = "/auth/login"
            /\ http'.body = NoBody
            /\ UNCHANGED business
       /\ (session'.userId # session.userId /\ session'.userId # NoUser) =>
            /\ AnsweredNow({"POST /auth/login"})
            /\ http'.status = "302" /\ http'.location = "/"
            /\ \E n \in 1..Len(users) :
                 users[n].id = session'.userId /\ users[n].isActive]_vars

\* C14: every route other than the three session routes is served only
\* with a userId in the session (a request without one is redirected to
\* /auth/login and touches no business data); a session gets a userId only
\* through a successful login of an active user; and after a logout is
\* answered the session holds no userId, so that every protected request
\* is redirected until the next successful login.
C14_SessionGuard ==
    /\ C14_GuardAndLogin
    /\ [][AnsweredNow({"POST /auth/logout"}) => session'.userId = NoUser]_vars

\* the routes that take the id of a stock item, a product, an employee or
\* a sale
StockTargets == {"GET /stock/edit/:id", "POST /stock/edit/:id", "POST /stock/delete/:id"}
ProductTargets ==
    {"GET /products/edit/:id", "POST /products/edit/:id", "POST /products/delete/:id"}
EmployeeTargets ==
    {"GET /employees/edit/:id", "POST /employees/edit/:id",
     "POST /employees/delete/:id", "GET /employees/salary/:id"}
SaleTargets == {"GET /sales/invoice/:id"}

\* the request answered in this step names a well-formed id that no stored
\* item of its kind has, and no storage operation failed on the way
MissingTargetNow ==
    /\ http'.failed \cap {"db", "write"} = {}
    /\ \/ AnsweredNow(StockTargets) /\ findIndex(stock, http'.id) = {}
       \/ AnsweredNow(ProductTargets) /\ findIndex(catalog, http'.id) = {}
       \/ AnsweredNow(EmployeeTargets) /\ IsObjectId(http'.id) /\ findById(http'.id) = {}
       \/ /\ AnsweredNow(SaleTargets) /\ IsObjectId(http'.id)
          /\ \A n \in 1..Len(sales) : SaleId(n) # http'.id
          /\ \A n \in 1..Len(simpleSales) : simpleSales[n].id # http'.id

\* C16: every request of a logged-in user that targets a sale, an employee,
\* a stock item or a product that does not exist is answered with status
\* 404 and changes no stored data: the invoice download, GET and POST edit
\* and delete of stock items, products and employees, and the salary
\* details.
C16_MissingTargetIs404 ==
    [][(requireAuth /\ MissingTargetNow) =>
         /\ http'.status = "404"
         /\ UNCHANGED <<business, users>>]_vars

\* C17: whenever a request is answered, it is answered with a status, no
\* failure has left the handler, and if an operation on a file, on the
\* database or on the session store failed during the request the status
\* is 500.
C17_FailuresBecome500 ==
    [][http'.seq # http.seq =>
         /\ http'.status # "none"
         /\ "escaped" \notin http'.failed
         /\ http'.failed \cap {"read", "write", "db", "session"} # {}
              => http'.status = "500"]_vars

(***************************************************************************)
(* Properties of requests to the stock file in flight together.            *)
(***************************************************************************)
\* the request of the slot was answered with the redirect
Succeeded(r) == inflight[r].state = "answered" /\ inflight[r].status = "302"

\* the file holds the change the request of the slot asked for
ChangeIn(r, file) ==
    \E k \in 1..Len(file) :
        /\ file[k].name = FileString(Get(inflight[r].body, "name"))
        /\ file[k].quantity = parseFloat(Get(inflight[r].body, "quantity"))
        /\ IF inflight[r].route = "POST /stock/add"
           THEN \A j \in 1..Len(StockFile) : file[k].id # StockFile[j].id
           ELSE file[k].id = inflight[r].id

\* q was waiting for its handler when the handler of r ran
HandledWhileWaiting(r, q) == q \in inflight[r].waiting

\* the handler of q can run now, read the file, and answer with the redirect
\* while leaving the file without the change of r
OverwriteOf(r, q) ==
    /\ Handle(q)
    /\ http'.status = "302"
    /\ "read" \notin http'.failed
    /\ ~ChangeIn(r, stock')

Owed(a) ==
    /\ a \in DOMAIN advances
    /\ ~advances[a].isDeducted
    /\ advances[a].employeeId \in DOMAIN employees
    /\ employees[advances[a].employeeId].isActive

\* the Advance is marked deducted and a Salary row includes it
Deducted(a) ==
    /\ a \in DOMAIN advances
    /\ advances[a].isDeducted
    /\ \E k \in 1..Len(included) : a \in included[k].advances

C22_LateAdvanceStays ==
    [][\A a \in DOMAIN advances :
          (/\ ~advances[a].isDeducted
           /\ \E k \in 1..Len(salaries) :
                /\ salaries[k].employeeId = advances[a].employeeId
                /\ InMonth(advances[a].createdAt, salaries[k].month, salaries[k].year)
                /\ a \notin included[k].advances)
          => ~advances'[a].isDeducted]_vars

(***************************************************************************)
(* Properties of the ownership of sales.                                   *)
(***************************************************************************)
\* the stored Sale carries the userId
OwnedBy(sale, userId) == "userId" \in DOMAIN sale /\ sale.userId = userId

\* GET /sales is answered with the list in this step
SalesListedNow == AnsweredNow({"GET /sales"}) /\ http'.status = "200"

\* C23: every Sale persisted by POST /sales/add stores the userId of the
\* session that created it; GET /sales and the invoice handler return a
\* multi-item Sale to a session only if that stored userId equals the
\* session's userId; and GET /sales lists every Sale that stores the
\* session's userId.
C23_SaleOwnership ==
    [][/\ SalePersistedNow => OwnedBy(sales'[Len(sales')], session.userId)
       /\ SalesListedNow =>
            \A n \in 1..Len(sales) :
                n \in http'.body.multiSales <=> OwnedBy(sales[n], session.userId)
       /\ ItemizedInvoiceNow =>
            \A n \in SaleFindOne(http'.id, session.userId) :
                OwnedBy(sales[n], session.userId)]_vars

\* a state reached with strictQuery: a user is given, in the list or as the
\* invoice, the sale another user created
C23_ForeignSaleServed ==
      /\ http.route \in {"GET /sales", "GET /sales/invoice/:id"}
      /\ http.status = "200"
      /\ http.body.kind \in {"sales/list", "pdf"}
      /\ Len(sales) = 1
      /\ saleRequest.userId # session.userId
      /\ http.body.kind = "sales/list" => http.body.multiSales = {1}
      /\ http.body.kind = "pdf" => http.body.layout = "items"

\* a state reached without strictQuery: the list a user is given lacks the
\* sale that user created
C23_OwnSaleHidden ==
      /\ http.route = "GET /sales"
      /\ http.status = "200"
      /\ Len(sales) = 1
      /\ saleRequest.userId = session.userId
      /\ http.body.multiSales = {}

(***************************************************************************)
(* Properties of the routes that change the stock and products files.      *)
(***************************************************************************)
\* the file after the step is the file before it followed by one entry
Appended(before, after) ==
    /\ Len(after) = Len(before) + 1
    /\ SubSeq(after, 1, Len(before)) = before

\* C24: whenever POST /stock/add or POST /products/add is answered with
\* success (the redirect to the list), the file holds every entry it held before the request,
\* unchanged and in the same order, followed by the new entry; also when
\* reading the file fails during the request.
C24_AddKeepsEntries ==
    [][/\ (AnsweredNow({"POST /stock/add"}) /\ http'.location = "/stock")
            => Appended(stock, stock')
       /\ (AnsweredNow({"POST /products/add"}) /\ http'.location = "/products")
            => Appended(catalog, catalog')]_vars

\* an edit: the entries keep their ids and positions, and every entry whose
\* id is not the edited one is unchanged
EditFrame(before, after, id) ==
    /\ Len(after) = Len(before)
    /\ \A k \in 1..Len(before) :
         /\ after[k].id = before[k].id
         /\ before[k].id # id => after[k] = before[k]

\* C25: POST /stock/edit/:id and POST /products/edit/:id, answered with
\* success, change only the entry whose id is :id and keep its id and
\* position; POST /stock/delete/:id and POST /products/delete/:id, answered
\* with success, remove exactly the entries whose id is :id and keep the
\* others in order; and when the write of the file fails, the stored
\* collection is unchanged and the answer is 500.
C25_EditDeleteFrame ==
    [][requireAuth =>
         /\ (AnsweredNow({"POST /stock/edit/:id"}) /\ http'.status = "302")
              => EditFrame(stock, stock', http'.id)
         /\ (AnsweredNow({"POST /products/edit/:id"}) /\ http'.status = "302")
              => EditFrame(catalog, catalog', http'.id)
         /\ (AnsweredNow({"POST /stock/delete/:id"}) /\ http'.status = "302")
              => stock' = filterOut(stock, http'.id)
         /\ (AnsweredNow({"POST /products/delete/:id"}) /\ http'.status = "302")
              => catalog' = filterOut(catalog, http'.id)
         /\ (AnsweredNow(StockTargets \cup ProductTargets) /\ "write" \in http'.failed)
              => /\ http'.status = "500"
                 /\ UNCHANGED <<stock, catalog>>]_vars

\* x <= y for two doubles that are not negative
DoubleLeq(x, y) ==
    LET n == Max(Len(x.f), Len(y.f))
        F(j) == IF j <= Len(x.f) THEN x.f[j] ELSE 0
        G(j) == IF j <= Len(y.f) THEN y.f[j] ELSE 0
        differ == {j \in 1..n : F(j) # G(j)}
        first == CHOOSE j \in differ : \A l \in differ : j <= l
    IN  \/ x.i < y.i
        \/ x.i = y.i /\ (differ = {} \/ F(first) < G(first))

\* at most one Attendance row per employee per calendar day
OneRowPerDay ==
    \A a, b \in attendance :
        (a.employeeId = b.employeeId /\ a.date \div 2 = b.date \div 2) => a = b

\* C26: given at most one Attendance row per employee per calendar day,
\* every persisted Salary row has presentDays + absentDays + halfDays <=
\* totalWorkingDays and 0 <= netSalary <= calculatedSalary <= basicSalary:
\* the batch never computes more than the full monthly salary.
C26_SalaryWithinBasic ==
    OneRowPerDay =>
        \A k \in 1..Len(salaries) :
            LET row == salaries[k] IN
            /\ row.presentDays + row.absentDays + row.halfDays <= row.totalWorkingDays
            /\ row.netSalaryDouble.i >= 0
            /\ DoubleLeq(row.netSalaryDouble, row.calculatedSalaryDouble)
            /\ DoubleLeq(row.calculatedSalaryDouble, [i |-> row.basicSalary, f |-> <<>>])

\* C27: when batch requests for the same (month, year) run concurrently and
\* the only errors are rejections by the unique index of Salary, every
\* request ends, and once no request is in flight every active employee has
\* exactly one Salary row for each period a request has written a row for:
\* no employee is left out because the competing requests aborted each other.
C27_RaceLeavesNoEmployeeOut ==
    /\ [](\A r \in Runs : runs[r].error \in {"none", "E11000"})
    /\ \A r \in Runs : (runs[r].pc # "idle") ~> (runs[r].pc = "idle")
    /\ []((\A r \in Runs : runs[r].pc = "idle") =>
             \A p \in Periods :
                 (\E e \in DOMAIN employees : RowsFor(e, p[1], p[2]) # {}) =>
                     \A e \in DOMAIN employees :
                         employees[e].isActive
                         => Cardinality(RowsFor(e, p[1], p[2])) = 1)

\* two requests for April 2024 raced: one was rejected by the unique index
\* and ended, none is in flight, and both employees have their one row
C27_Witness ==
    /\ \A r \in Runs : runs[r].pc = "idle"
    /\ \E r \in Runs : runs[r].error = "E11000"
    /\ \E r \in Runs : runs[r].response = "redirect"
    /\ \A e \in DOMAIN employees : Cardinality(RowsFor(e, 4, 2024)) = 1
    /\ \A e \in DOMAIN employees : RowsFor(e, 5, 2024) = {}

====
